---- MODULE Spec2Model ----
(***************************************************************************)
(* brtv: validated-type builders on top of a single-value validation       *)
(* engine.  A class call (StrLike, PathLike, IntLike, FloatLike, ListLike) *)
(* builds an annotated type: a base type, a field descriptor, a list of    *)
(* before-validators and a list of after-validators.  Evaluating a value   *)
(* against the annotated type runs the before-validators, the base-type    *)
(* conversion with the field checks, then the after-validators, and stops  *)
(* at the first validator that raises.                                     *)
(***************************************************************************)
EXTENDS Integers, Sequences, FiniteSets, TLC

VARIABLES
    kind,      \* the class being called
    call,      \* the keyword arguments of the build call, in caller order
    phase,     \* Declared, BuildFailed, Built, Running, Succeeded, Failed
    buildErr,  \* the error raised by the build call, "none" when it returned
    meta,      \* title / description / examples handed to Field(...)
    steps,     \* the validators of the built type, in execution order
    input,     \* the raw value under evaluation
    val,       \* the value carried from one validator to the next
    idx,       \* index in steps of the next validator to run
    trace,     \* the validator calls made so far: index, value and
               \* filesystem received, result and filesystem left
    failure,   \* what the failing validator reported
    fs,        \* the filesystem the path validators look at and change
    md,        \* a MultiDict: ordered (key, value) pairs, repeated keys allowed
    pop,       \* record of the last popall_get_last call on md
    guard,     \* one call of a function wrapped by validate_types_in_func_call
    conc       \* two evaluations of one built type running at the same time

vars == <<kind, call, phase, buildErr, meta, steps, input, val, idx, trace,
          failure, fs, md, pop, guard, conc>>

-----------------------------------------------------------------------------
(* Bounds of the model *)

\* longest declaration (number of (name, argument) pairs) of a build call
MaxDecl == 3
\* longest declaration of a path contract that changes the filesystem
MaxPathDecl == 3
\* longest declaration of a path contract evaluated by two threads
MaxConcDecl == 2
\* most keyword arguments of a standard-order build call
MaxStdDecl == 3
\* longest MultiDict of the popall_get_last state machine
MaxPush == 3

-----------------------------------------------------------------------------
(* Python values.  Every value is tagged with its type; strings are        *)
(* sequences of one-character strings.                                     *)

NoneV == [tag |-> "none", v |-> <<>>]
BoolV(b) == [tag |-> "bool", v |-> b]
IntV(n) == [tag |-> "int", v |-> n]
StrV(s) == [tag |-> "str", v |-> s]
TupleV(a, b) == [tag |-> "tuple", v |-> <<a, b>>]
ListV(l) == [tag |-> "list", v |-> l]
\* a pathlib.Path: the sequence of its names below the root, each name a
\* record of stem and suffix
PathV(p) == [tag |-> "path", v |-> p]
\* a float: finite (n hundredths), NaN, +Inf or -Inf
FloatV(c, n) == [tag |-> "float", v |-> [c |-> c, n |-> n]]
NaN == FloatV("nan", 0)
PosInf == FloatV("pinf", 0)
NegInf == FloatV("ninf", 0)
\* an array-like wrapper (numpy ndarray, pandas Series) with an item() method
ArrayV(l) == [tag |-> "ndarray", v |-> l]
\* a plain type (Any, int, float, str, Path); list[item] carries its item type
TypeV(t) == [tag |-> "type", v |-> t, item |-> <<>>]
ListTypeV(item) == [tag |-> "type", v |-> "list", item |-> item]
\* the value of the config keyword: an iterable of (key, value) pairs
PairsV(l) == [tag |-> "pairs", v |-> l]

IsNone(x) == x.tag = "none"

Reverse(s) == [i \in 1..Len(s) |-> s[Len(s) + 1 - i]]

RECURSIVE SeqsUpTo(_, _)
\* all sequences over S of length at most n
SeqsUpTo(S, n) ==
    IF n = 0 THEN {<<>>}
    ELSE LET shorter == SeqsUpTo(S, n - 1)
         IN  shorter \cup {Append(s, e) : s \in shorter, e \in S}

Names(pairs) == {pairs[i][1] : i \in 1..Len(pairs)}

DistinctNames(pairs) ==
    \A i, j \in 1..Len(pairs) : pairs[i][1] = pairs[j][1] => i = j

-----------------------------------------------------------------------------
(* String primitives used by the StrLike validators *)

\* p occurs in s starting at position i
OccursAt(p, s, i) ==
    /\ i + Len(p) - 1 <= Len(s)
    /\ \A k \in 1..Len(p) : s[i + k - 1] = p[k]

RECURSIVE ReSubFrom(_, _, _, _)
ReSubFrom(pat, repl, s, i) ==
    IF i > Len(s) THEN <<>>
    ELSE IF OccursAt(pat, s, i)
         THEN repl \o ReSubFrom(pat, repl, s, i + Len(pat))
         ELSE <<s[i]>> \o ReSubFrom(pat, repl, s, i + 1)

\* re.sub(pat, repl, s) for a non-empty pattern without metacharacters:
\* leftmost, non-overlapping occurrences are replaced
ReSub(pat, repl, s) == ReSubFrom(pat, repl, s, 1)

StartsWith(s, p) == OccursAt(p, s, 1)

EndsWith(s, p) == Len(p) <= Len(s) /\ OccursAt(p, s, Len(s) - Len(p) + 1)

UpperChar(c) ==
    CASE c = "f" -> "F" [] c = "o" -> "O" [] c = "b" -> "B"
      [] c = "a" -> "A" [] c = "r" -> "R" [] OTHER -> c

LowerChar(c) ==
    CASE c = "F" -> "f" [] c = "O" -> "o" [] c = "B" -> "b"
      [] c = "A" -> "a" [] c = "R" -> "r" [] c = "X" -> "x" [] OTHER -> c

Upper(s) == [i \in 1..Len(s) |-> UpperChar(s[i])]

Lower(s) == [i \in 1..Len(s) |-> LowerChar(s[i])]

RECURSIVE LStrip(_)
LStrip(s) == IF s # <<>> /\ Head(s) = " " THEN LStrip(Tail(s)) ELSE s

Strip(s) == Reverse(LStrip(Reverse(LStrip(s))))

-----------------------------------------------------------------------------
(* MultiDict and popall_get_last *)

RECURSIVE popall_values(_, _)
\* MultiDict.popall: the values stored under key, in insertion order
popall_values(m, key) ==
    IF m = <<>> THEN <<>>
    ELSE IF Head(m)[1] = key
         THEN <<Head(m)[2]>> \o popall_values(Tail(m), key)
         ELSE popall_values(Tail(m), key)

RECURSIVE popall_rest(_, _)
\* MultiDict.popall: what stays in the MultiDict
popall_rest(m, key) ==
    IF m = <<>> THEN <<>>
    ELSE IF Head(m)[1] = key
         THEN popall_rest(Tail(m), key)
         ELSE <<Head(m)>> \o popall_rest(Tail(m), key)

\* the mutated variant returns the first value stored under the key
popall_get_last_first(m, key, default) ==
    LET x == popall_values(m, key)
    IN  [ret |-> IF x = <<>> THEN default ELSE x[1],
         md  |-> popall_rest(m, key)]

\* popall_get_last(md, key, default): returns the value and leaves md mutated
popall_get_last(m, key, default) ==
    LET x == popall_values(m, key)
    IN  [ret |-> IF x = <<>> THEN default ELSE x[Len(x)],
         md  |-> popall_rest(m, key)]

-----------------------------------------------------------------------------
(* The registry: the make_validator_<name> attributes of each class *)

StrLikeFactories ==
    {"none_to_empty", "strip", "to_upper", "to_lower", "replace",
     "remove_accents", "startswith", "endswith", "pattern", "min_length",
     "max_length"}

PathLikeFactories ==
    {"exist", "exist_as_file", "exist_as_dir", "not_exist", "readable",
     "writable", "create_as_dir", "create_as_file", "create_parents",
     "absolute", "resolve", "endswith", "path_pattern", "name_pattern",
     "with_suffix", "with_random_part"}

IntLikeFactories == {"is_number"}

\* FloatLike derives from IntLike
FloatLikeFactories ==
    IntLikeFactories \cup {"allow_nan", "allow_inf", "max_decimal_places"}

ListLikeFactories ==
    {"none_to_empty", "coerce_scalar", "iterable_to_list", "length",
     "unique_items", "is_sorted", "is_sorted_reverse", "sort", "sort_reverse"}

Factories(cls) ==
    CASE cls = "StrLike" -> StrLikeFactories
      [] cls = "PathLike" -> PathLikeFactories
      [] cls = "IntLike" -> IntLikeFactories
      [] cls = "FloatLike" -> FloatLikeFactories
      [] cls = "ListLike" -> ListLikeFactories
      [] OTHER -> {}

\* the annotation of the factory's parameter, checked in strict mode when the
\* factory is called
ArgTypeOk(cls, key, value) ==
    CASE key \in {"none_to_empty", "strip", "to_upper", "to_lower",
                  "remove_accents", "exist", "exist_as_file", "exist_as_dir",
                  "not_exist", "readable", "writable", "create_as_dir",
                  "create_as_file", "create_parents", "absolute", "resolve",
                  "with_random_part", "is_number", "allow_nan", "allow_inf",
                  "iterable_to_list", "unique_items", "is_sorted",
                  "is_sorted_reverse", "sort", "sort_reverse"} ->
            value.tag = "bool"
      [] key = "coerce_scalar" -> value.tag = "tuple" /\ value.v[1].tag = "bool"
      [] key = "replace" ->
            /\ value.tag = "tuple"
            /\ value.v[1].tag = "str"
            /\ value.v[2].tag = "str"
      [] key \in {"startswith", "endswith", "pattern", "path_pattern",
                  "name_pattern", "with_suffix"} -> value.tag = "str"
      [] key \in {"min_length", "max_length", "length",
                  "max_decimal_places"} -> value.tag = "int"
      [] OTHER -> TRUE

NoStep == [name |-> "", arg |-> NoneV, stage |-> "", captured |-> ""]

\* _get_validator: getattr(cls, "make_validator_" + key), then the factory call
get_validator(cls, key, value) ==
    IF key \notin Factories(cls)
    THEN [err |-> "UnknownConstraint", step |-> NoStep]
    ELSE IF ~ArgTypeOk(cls, key, value)
    THEN [err |-> "ConstraintArgumentTypeError", step |-> NoStep]
    ELSE [err |-> "none",
          step |-> [name |-> key, arg |-> value, stage |-> "", captured |-> ""]]

RECURSIVE get_validators(_, _)
\* _get_validators: one validator per entry whose value is not None, in the
\* iteration order of the mapping; the first error aborts the loop
get_validators(cls, args) ==
    IF args = <<>> THEN [err |-> "none", validators |-> <<>>]
    ELSE IF IsNone(Head(args)[2]) THEN get_validators(cls, Tail(args))
    ELSE LET r == get_validator(cls, Head(args)[1], Head(args)[2])
         IN  IF r.err # "none" THEN [err |-> r.err, validators |-> <<>>]
             ELSE LET rest == get_validators(cls, Tail(args))
                  IN  IF rest.err # "none" THEN rest
                      ELSE [err |-> "none",
                            validators |-> <<r.step>> \o rest.validators]

Staged(vs, stage) == [i \in 1..Len(vs) |-> [vs[i] EXCEPT !.stage = stage]]

\* the mutated variant keeps the before-validators in the order of the dict
get_before_validators_kept(cls, args) ==
    LET r == get_validators(cls, args)
    IN  [err |-> r.err, validators |-> Staged(r.validators, "pre")]

\* _get_before_validators: wrapped as BeforeValidator, then reversed
get_before_validators(cls, args) ==
    LET r == get_validators(cls, args)
    IN  [err |-> r.err, validators |-> Reverse(Staged(r.validators, "pre"))]

\* the mutated variant reverses the after-validators as well
get_after_validators_reversed(cls, args) ==
    LET r == get_validators(cls, args)
    IN  [err |-> r.err, validators |-> Reverse(Staged(r.validators, "post"))]

\* _get_after_validators: wrapped as AfterValidator, order kept
get_after_validators(cls, args) ==
    LET r == get_validators(cls, args)
    IN  [err |-> r.err, validators |-> Staged(r.validators, "post")]

NoAnnotated == [type |-> TypeV(""), field |-> <<>>, before |-> <<>>, after |-> <<>>]

\* _get_annotated: Annotated[type, Field(**field), *before, *after]
get_annotated(cls, type, before_args, field_args, after_args) ==
    LET b == get_before_validators(cls, before_args)
        a == get_after_validators(cls, after_args)
    IN  IF b.err # "none" THEN [err |-> b.err, annotated |-> NoAnnotated]
        ELSE IF a.err # "none" THEN [err |-> a.err, annotated |-> NoAnnotated]
        ELSE [err |-> "none",
              annotated |-> [type |-> type, field |-> field_args,
                             before |-> b.validators, after |-> a.validators]]

\* value stored under a key of a field_validators_args dict
FieldArg(field, key) ==
    LET hits == popall_values(field, key)
    IN  IF hits = <<>> THEN NoneV ELSE hits[Len(hits)]

-----------------------------------------------------------------------------
(* User-order builders *)

\* StrLike._real_new
real_new_StrLike(config) ==
    LET p1 == popall_get_last(config, "none_to_empty", BoolV(FALSE))
        p2 == popall_get_last(p1.md, "title", NoneV)
        p3 == popall_get_last(p2.md, "description", NoneV)
        p4 == popall_get_last(p3.md, "examples", NoneV)
    IN  get_annotated("StrLike", TypeV("str"),
                      << <<"none_to_empty", p1.ret>> >>,
                      << <<"title", p2.ret>>, <<"description", p3.ret>>,
                         <<"examples", p4.ret>>, <<"strict", BoolV(FALSE)>> >>,
                      p4.md)

\* PathLike._real_new
real_new_PathLike(config) ==
    LET p1 == popall_get_last(config, "title", NoneV)
        p2 == popall_get_last(p1.md, "description", NoneV)
        p3 == popall_get_last(p2.md, "examples", NoneV)
    IN  get_annotated("PathLike", TypeV("Path"),
                      <<>>,
                      << <<"title", p1.ret>>, <<"description", p2.ret>>,
                         <<"examples", p3.ret>>, <<"strict", BoolV(FALSE)>> >>,
                      p3.md)

real_new(cls, config) ==
    CASE cls = "StrLike" -> real_new_StrLike(config)
      [] cls = "PathLike" -> real_new_PathLike(config)

RECURSIVE AsDict(_)
\* a plain dict built from the pairs: a repeated key keeps its first position
\* and its last value
AsDict(pairs) ==
    IF pairs = <<>> THEN <<>>
    ELSE LET init == AsDict(SubSeq(pairs, 1, Len(pairs) - 1))
             e == pairs[Len(pairs)]
         IN  IF e[1] \in Names(init)
             THEN [i \in 1..Len(init) |->
                      IF init[i][1] = e[1] THEN e ELSE init[i]]
             ELSE Append(init, e)

\* the mutated wrapper stores the configuration in a plain dict
call_real_new_dict(cls, kwargs) ==
    IF "config" \in Names(kwargs)
    THEN IF Names(kwargs) # {"config"}
         THEN [err |-> "AmbiguousDeclaration", annotated |-> NoAnnotated]
         ELSE real_new(cls, AsDict(kwargs[1][2].v))
    ELSE real_new(cls, AsDict(kwargs))

\* the mutated wrapper lets config win over the other keyword arguments
call_real_new_lenient(cls, kwargs) ==
    IF "config" \in Names(kwargs)
    THEN real_new(cls, (CHOOSE e \in {kwargs[i] : i \in 1..Len(kwargs)} :
                            e[1] = "config")[2].v)
    ELSE real_new(cls, kwargs)

\* the mutated variant reads the keywords last to first
call_real_new_reversed(cls, kwargs) ==
    IF "config" \in Names(kwargs)
    THEN IF Names(kwargs) # {"config"}
         THEN [err |-> "AmbiguousDeclaration", annotated |-> NoAnnotated]
         ELSE real_new(cls, kwargs[1][2].v)
    ELSE real_new(cls, Reverse(kwargs))

\* the wrapper installed by _call_real_new around __new__
call_real_new(cls, kwargs) ==
    IF "config" \in Names(kwargs)
    THEN IF Names(kwargs) # {"config"}
         THEN [err |-> "AmbiguousDeclaration", annotated |-> NoAnnotated]
         ELSE real_new(cls, kwargs[1][2].v)
    ELSE real_new(cls, kwargs)

-----------------------------------------------------------------------------
(* Standard-order builders: __new__ binds the keywords to its parameters   *)
(* and fills the three argument dicts in the order written in its body.    *)

CommonParams == {"title", "description", "examples"}
BoundParams == {"gt", "ge", "lt", "le", "multiple_of"}

Params(cls) ==
    CASE cls = "IntLike" -> CommonParams \cup BoundParams
      [] cls = "FloatLike" ->
            CommonParams \cup BoundParams
                \cup {"allow_nan", "allow_inf", "max_decimal_places"}
      [] cls = "ListLike" ->
            CommonParams
                \cup {"item_type", "none_to_empty", "coerce_scalar",
                      "min_length", "max_length", "length", "unique_items",
                      "sorted", "sorted_reverse", "sort", "sort_reverse"}

Required(cls) == IF cls = "ListLike" THEN {"item_type"} ELSE {}

\* the annotation of a parameter of __new__, checked in strict mode
ParamTypeOk(name, value) ==
    CASE name \in {"allow_nan", "allow_inf", "none_to_empty",
                   "coerce_scalar"} -> value.tag = "bool"
      [] name \in {"unique_items", "sorted", "sorted_reverse", "sort",
                   "sort_reverse"} -> value.tag \in {"bool", "none"}
      [] name \in BoundParams -> value.tag \in {"float", "int", "none"}
      [] name \in {"min_length", "max_length", "length",
                   "max_decimal_places"} -> value.tag \in {"int", "none"}
      [] name \in {"title", "description"} -> value.tag \in {"str", "none"}
      [] name = "examples" -> value.tag \in {"list", "none"}
      [] OTHER -> TRUE

\* the value a parameter is bound to: the keyword's, else the default
Bind(kwargs, name, default) ==
    LET hits == popall_values(kwargs, name)
    IN  IF hits = <<>> THEN default ELSE hits[1]

\* the mutated variant lists the entries in the order the caller gave the
\* keywords (parameters left at their default come last)
DictOf_caller_order(kwargs, keys, params, defaults) ==
    LET pos(i) ==
            IF params[i] \in Names(kwargs)
            THEN CHOOSE k \in 1..Len(kwargs) : kwargs[k][1] = params[i]
            ELSE Len(kwargs) + i
        rank(i) == Cardinality({j \in 1..Len(keys) : pos(j) < pos(i)}) + 1
        at(r) == CHOOSE i \in 1..Len(keys) : rank(i) = r
    IN  [r \in 1..Len(keys) |->
            <<keys[at(r)], Bind(kwargs, params[at(r)], defaults[at(r)])>>]

\* the dict literal {key: parameter, ...} written in the body of __new__
DictOf(kwargs, keys, params, defaults) ==
    [i \in 1..Len(keys) |-> <<keys[i], Bind(kwargs, params[i], defaults[i])>>]

MetaKeys == <<"title", "description", "examples">>
BoundKeys == <<"gt", "ge", "lt", "le", "multiple_of">>

NumField(kwargs) ==
    DictOf(kwargs, MetaKeys, MetaKeys, <<NoneV, NoneV, NoneV>>)
    \o << <<"strict", BoolV(FALSE)>> >>
    \o DictOf(kwargs, BoundKeys, BoundKeys,
              <<NoneV, NoneV, NoneV, NoneV, NoneV>>)

\* IntLike.__new__
new_IntLike(kwargs) ==
    get_annotated("IntLike", TypeV("int"),
                  << <<"is_number", BoolV(TRUE)>> >>,
                  NumField(kwargs),
                  <<>>)

\* the mutated variant leaves allow_nan / allow_inf at None by default
new_FloatLike_optional_flags(kwargs) ==
    get_annotated("FloatLike", TypeV("float"),
                  << <<"is_number", BoolV(TRUE)>> >>,
                  NumField(kwargs),
                  DictOf(kwargs,
                         <<"allow_nan", "allow_inf", "max_decimal_places">>,
                         <<"allow_nan", "allow_inf", "max_decimal_places">>,
                         <<NoneV, NoneV, NoneV>>))

\* FloatLike.__new__
new_FloatLike(kwargs) ==
    get_annotated("FloatLike", TypeV("float"),
                  << <<"is_number", BoolV(TRUE)>> >>,
                  NumField(kwargs),
                  DictOf(kwargs,
                         <<"allow_nan", "allow_inf", "max_decimal_places">>,
                         <<"allow_nan", "allow_inf", "max_decimal_places">>,
                         <<BoolV(FALSE), BoolV(FALSE), NoneV>>))

\* ListLike.__new__
new_ListLike(kwargs) ==
    LET item_type == Bind(kwargs, "item_type", NoneV)
    IN  get_annotated(
            "ListLike", ListTypeV(item_type),
            << <<"none_to_empty", Bind(kwargs, "none_to_empty", BoolV(FALSE))>>,
               <<"coerce_scalar",
                 TupleV(Bind(kwargs, "coerce_scalar", BoolV(FALSE)), item_type)>>,
               <<"iterable_to_list", BoolV(TRUE)>> >>,
            DictOf(kwargs, MetaKeys \o <<"min_length", "max_length">>,
                   MetaKeys \o <<"min_length", "max_length">>,
                   <<NoneV, NoneV, NoneV, NoneV, NoneV>>)
            \o << <<"fail_fast", BoolV(TRUE)>> >>,
            DictOf(kwargs,
                   <<"length", "unique_items", "is_sorted", "is_sorted_reverse",
                     "sort", "sort_reverse">>,
                   <<"length", "unique_items", "sorted", "sorted_reverse",
                     "sort", "sort_reverse">>,
                   <<NoneV, NoneV, NoneV, NoneV, NoneV, NoneV>>))

\* a standard-order class call: the keywords are checked against the
\* signature of __new__, then its body runs
std_new(cls, kwargs) ==
    IF Names(kwargs) \ Params(cls) # {}
    THEN [err |-> "UnknownConstraint", annotated |-> NoAnnotated]
    ELSE IF Required(cls) \ Names(kwargs) # {}
    THEN [err |-> "MissingArgument", annotated |-> NoAnnotated]
    ELSE IF \E i \in 1..Len(kwargs) : ~ParamTypeOk(kwargs[i][1], kwargs[i][2])
    THEN [err |-> "ConstraintArgumentTypeError", annotated |-> NoAnnotated]
    ELSE CASE cls = "IntLike" -> new_IntLike(kwargs)
           [] cls = "FloatLike" -> new_FloatLike(kwargs)
           [] cls = "ListLike" -> new_ListLike(kwargs)

-----------------------------------------------------------------------------
(* What a validator call gives back *)

Ok(x) == [ok |-> TRUE, v |-> x, exc |-> "none"]
\* ValueError: the engine turns it into a validation error
Raise == [ok |-> FALSE, v |-> NoneV, exc |-> "ValueError"]
\* an OSError raised by a filesystem call leaves the engine as it is
RaiseOS == [ok |-> FALSE, v |-> NoneV, exc |-> "OSError"]
\* so does a TypeError
RaiseType == [ok |-> FALSE, v |-> NoneV, exc |-> "TypeError"]

Pure(r, f) == [ok |-> r.ok, v |-> r.v, exc |-> r.exc, fs |-> f]

-----------------------------------------------------------------------------
(* The filesystem and the pathlib / os calls of the PathLike validators.   *)
(* A filesystem is the set of its directories, the set of its files and    *)
(* the sets of paths the process may not write or read.  Paths are         *)
(* absolute; the root directory is the empty sequence.                     *)

NoFs == [dirs |-> {<<>>}, files |-> {}, nowrite |-> {}, noread |-> {}]

Exists(f, p) == p \in f.dirs \cup f.files
IsFile(f, p) == p \in f.files
IsDir(f, p) == p \in f.dirs
\* os.access(p, os.W_OK) and os.access(p, os.R_OK)
AccessW(f, p) == Exists(f, p) /\ p \notin f.nowrite
AccessR(f, p) == Exists(f, p) /\ p \notin f.noread

\* Path.parent: the root is its own parent
Parent(p) == IF p = <<>> THEN p ELSE SubSeq(p, 1, Len(p) - 1)

\* Path.parents: the ancestors from the nearest one to the root
Parents(p) == [i \in 1..Len(p) |-> SubSeq(p, 1, Len(p) - i)]

\* the ancestors-or-self of p that do not exist yet
Missing(f, p) == {SubSeq(p, 1, k) : k \in 0..Len(p)} \ (f.dirs \cup f.files)

\* the nearest ancestor-or-self of p that exists
NearestExisting(f, p) ==
    LET ks == {k \in 0..Len(p) : Exists(f, SubSeq(p, 1, k))}
    IN  SubSeq(p, 1, CHOOSE k \in ks : \A j \in ks : j <= k)

\* Path.mkdir(parents=True, exist_ok=exist_ok)
Mkdir(f, p, exist_ok) ==
    IF Exists(f, p)
    THEN [ok |-> exist_ok /\ IsDir(f, p), fs |-> f]
    ELSE LET a == NearestExisting(f, p)
         IN  IF IsDir(f, a) /\ AccessW(f, a)
             THEN [ok |-> TRUE,
                   fs |-> [f EXCEPT !.dirs = f.dirs \cup Missing(f, p)]]
             ELSE [ok |-> FALSE, fs |-> f]

\* open(p, "w") followed by close
OpenW(f, p) ==
    IF IsDir(f, p) THEN [ok |-> FALSE, fs |-> f]
    ELSE IF IsFile(f, p) THEN [ok |-> AccessW(f, p), fs |-> f]
    ELSE IF IsDir(f, Parent(p)) /\ AccessW(f, Parent(p))
    THEN [ok |-> TRUE, fs |-> [f EXCEPT !.files = f.files \cup {p}]]
    ELSE [ok |-> FALSE, fs |-> f]

\* str(path) as a sequence of the atoms "/", stem and suffix
RECURSIVE PathStr(_)
PathStr(p) ==
    IF p = <<>> THEN <<>>
    ELSE PathStr(Parent(p)) \o <<"/", p[Len(p)].stem>>
         \o (IF p[Len(p)].suffix = "" THEN <<>> ELSE <<p[Len(p)].suffix>>)

RECURSIVE SplitOn(_, _)
\* str.split(sep) for a one-atom separator
SplitOn(s, sep) ==
    IF \A i \in 1..Len(s) : s[i] # sep THEN <<s>>
    ELSE LET k == CHOOSE i \in 1..Len(s) :
                      s[i] = sep /\ \A j \in 1..(i - 1) : s[j] # sep
         IN  <<SubSeq(s, 1, k - 1)>> \o SplitOn(SubSeq(s, k + 1, Len(s)), sep)

\* Path.with_suffix for a suffix string of at most one atom ("" or ".ext")
WithSuffix(p, suffix) ==
    [p EXCEPT ![Len(p)] = [stem |-> p[Len(p)].stem,
                           suffix |-> IF suffix = <<>> THEN "" ELSE suffix[1]]]

OkFs(x, f) == Pure(Ok(x), f)

\* Path.with_name(stem + "_" + random_str + suffix)
WithRandomPart(p, random_str) ==
    [p EXCEPT ![Len(p)] = [stem |-> p[Len(p)].stem \o "_" \o random_str,
                           suffix |-> p[Len(p)].suffix]]

\* a variant whose string is not the one the factory drew but changes from
\* call to call (here with the filesystem the call finds)
with_random_part_validator_fresh(with_random_part, random_str, x, f) ==
    IF ~with_random_part THEN OkFs(x, f)
    ELSE IF x.v = <<>> THEN Pure(Raise, f)
    ELSE OkFs(PathV(WithRandomPart(x.v, IF IsDir(f, Parent(x.v))
                                        THEN "bbbbbbbb" ELSE "aaaaaaaa")), f)

\* the closure returned by make_validator_with_random_part, random_str being
\* the string the factory drew
with_random_part_validator(with_random_part, random_str, x, f) ==
    IF ~with_random_part THEN OkFs(x, f)
    ELSE IF x.v = <<>> THEN Pure(Raise, f)
    ELSE OkFs(PathV(WithRandomPart(x.v, random_str)), f)

\* the mutated variant asks only the nearest existing ancestor
writable_validator_nearest(writable, x, f) ==
    IF ~writable THEN OkFs(x, f)
    ELSE IF AccessW(f, NearestExisting(f, x.v)) THEN OkFs(x, f)
    ELSE Pure(Raise, f)

\* the closure returned by make_validator_writable
writable_validator(writable, x, f) ==
    LET p == x.v
    IN  IF ~writable THEN OkFs(x, f)
        ELSE IF Exists(f, p)
        THEN IF AccessW(f, p) THEN OkFs(x, f) ELSE Pure(Raise, f)
        ELSE IF \E i \in 1..Len(p) : AccessW(f, Parents(p)[i])
        THEN OkFs(x, f)
        ELSE Pure(Raise, f)

\* create_as_dir and create_as_file without the test: always create
NeedsAct_always(step, x, f) == step.arg.v

\* the test create_as_dir and create_as_file make before they create
NeedsAct(step, x, f) ==
    CASE step.name = "create_as_dir" -> step.arg.v /\ ~IsDir(f, x.v)
      [] step.name = "create_as_file" -> step.arg.v /\ ~IsFile(f, x.v)
      [] OTHER -> FALSE

\* what they do once the test has said the path is missing
Act(step, x, f) ==
    CASE step.name = "create_as_dir" ->
            LET r == Mkdir(f, x.v, FALSE)
            IN  IF r.ok THEN OkFs(x, r.fs) ELSE Pure(RaiseOS, f)
      [] step.name = "create_as_file" ->
            LET r == Mkdir(f, Parent(x.v), TRUE)
                o == OpenW(r.fs, x.v)
            IN  IF ~r.ok THEN Pure(RaiseOS, f)
                ELSE IF ~o.ok THEN Pure(RaiseOS, r.fs)
                ELSE OkFs(x, o.fs)

\* the closures returned by the PathLike factories
ApplyPathLike(step, x, f) ==
    LET a == step.arg
        p == x.v
    IN  CASE step.name = "exist" ->
                IF a.v /\ ~Exists(f, p) THEN Pure(Raise, f) ELSE OkFs(x, f)
          [] step.name = "exist_as_file" ->
                IF a.v /\ ~IsFile(f, p) THEN Pure(Raise, f) ELSE OkFs(x, f)
          [] step.name = "exist_as_dir" ->
                IF a.v /\ ~IsDir(f, p) THEN Pure(Raise, f) ELSE OkFs(x, f)
          [] step.name = "not_exist" ->
                IF a.v /\ Exists(f, p) THEN Pure(Raise, f) ELSE OkFs(x, f)
          [] step.name = "readable" ->
                IF a.v /\ ~AccessR(f, p) THEN Pure(Raise, f) ELSE OkFs(x, f)
          [] step.name = "writable" -> writable_validator(a.v, x, f)
          [] step.name \in {"create_as_dir", "create_as_file"} ->
                IF NeedsAct(step, x, f) THEN Act(step, x, f) ELSE OkFs(x, f)
          [] step.name = "create_parents" ->
                IF a.v
                THEN LET r == Mkdir(f, Parent(p), TRUE)
                     IN  IF r.ok THEN OkFs(x, r.fs) ELSE Pure(RaiseOS, f)
                ELSE OkFs(x, f)
          [] step.name = "endswith" ->
                LET suffixes == SplitOn(a.v, ";")
                IN  IF \E i \in 1..Len(suffixes) :
                           EndsWith(PathStr(p), Strip(suffixes[i]))
                    THEN OkFs(x, f)
                    ELSE Pure(Raise, f)
          [] step.name = "with_suffix" ->
                IF p = <<>> THEN Pure(Raise, f)
                ELSE OkFs(PathV(WithSuffix(p, a.v)), f)
          [] step.name = "with_random_part" ->
                with_random_part_validator(a.v, step.captured, x, f)

-----------------------------------------------------------------------------
(* The validation engine: execution order of an annotated type *)

FieldStep(annotated) ==
    [name |-> "field",
     arg |-> [tag |-> "field", v |-> annotated.field, type |-> annotated.type],
     stage |-> "field",
     captured |-> ""]

\* before-validators run in reverse order of declaration, then the base type
\* with its field checks, then the after-validators in order of declaration
EngineSteps(annotated) ==
    Reverse(annotated.before) \o <<FieldStep(annotated)>> \o annotated.after

\* the closures returned by the StrLike factories
ApplyStrLike(step, x) ==
    LET a == step.arg
    IN  CASE step.name = "none_to_empty" ->
                IF a.v /\ IsNone(x) THEN Ok(StrV(<<>>)) ELSE Ok(x)
          [] step.name = "strip" ->
                IF a.v THEN Ok(StrV(Strip(x.v))) ELSE Ok(x)
          [] step.name = "to_upper" ->
                IF a.v THEN Ok(StrV(Upper(x.v))) ELSE Ok(x)
          [] step.name = "to_lower" ->
                IF a.v THEN Ok(StrV(Lower(x.v))) ELSE Ok(x)
          [] step.name = "replace" ->
                Ok(StrV(ReSub(a.v[1].v, a.v[2].v, x.v)))
          [] step.name = "remove_accents" -> Ok(x)
          [] step.name = "startswith" ->
                IF StartsWith(x.v, a.v) THEN Ok(x) ELSE Raise
          [] step.name = "endswith" ->
                IF EndsWith(x.v, a.v) THEN Ok(x) ELSE Raise
          [] step.name = "pattern" ->
                IF StartsWith(x.v, a.v) THEN Ok(x) ELSE Raise
          [] step.name = "min_length" ->
                IF Len(x.v) < a.v THEN Raise ELSE Ok(x)
          [] step.name = "max_length" ->
                IF Len(x.v) > a.v THEN Raise ELSE Ok(x)

-----------------------------------------------------------------------------
(* Numbers *)

IsNumber(x) == x.tag \in {"int", "float"}
IsNaN(x) == x.tag = "float" /\ x.v.c = "nan"
IsInf(x) == x.tag = "float" /\ x.v.c \in {"pinf", "ninf"}
IsFinite(x) == x.tag = "int" \/ (x.tag = "float" /\ x.v.c = "fin")

\* a finite number in hundredths
Hundredths(x) == IF x.tag = "int" THEN x.v * 100 ELSE x.v.n

\* float(x) for a number
ToFloat(x) == IF x.tag = "int" THEN FloatV("fin", x.v * 100) ELSE x

\* how a float compares with a finite bound: lt, eq, gt, or unordered (NaN)
Compare(x, bound) ==
    CASE x.v.c = "nan" -> "unordered"
      [] x.v.c = "pinf" -> "gt"
      [] x.v.c = "ninf" -> "lt"
      [] OTHER -> IF x.v.n < Hundredths(bound) THEN "lt"
                  ELSE IF x.v.n = Hundredths(bound) THEN "eq" ELSE "gt"

\* the gt / ge / lt / le checks of Field(...)
BoundsOk(x, field) ==
    LET holds(key, allowed) ==
            \/ IsNone(FieldArg(field, key))
            \/ Compare(ToFloat(x), FieldArg(field, key)) \in allowed
    IN  /\ holds("gt", {"gt"})
        /\ holds("ge", {"gt", "eq"})
        /\ holds("lt", {"lt"})
        /\ holds("le", {"lt", "eq"})

\* number of decimal places, trailing zeroes not counted
DecimalPlaces(n) == IF n % 100 = 0 THEN 0 ELSE IF n % 10 = 0 THEN 1 ELSE 2

\* the closures returned by the IntLike / FloatLike factories
ApplyNumLike(step, x) ==
    LET a == step.arg
    IN  CASE step.name = "is_number" ->
                IF ~a.v THEN Ok(x)
                ELSE IF IsNumber(x) THEN Ok(x)
                ELSE IF x.tag = "ndarray"
                THEN IF Len(x.v) = 1 THEN Ok(x.v[1]) ELSE Raise
                ELSE Raise
          [] step.name = "allow_nan" ->
                IF IsNaN(x) /\ ~a.v THEN Raise ELSE Ok(x)
          [] step.name = "allow_inf" ->
                IF IsInf(x) /\ ~a.v THEN Raise ELSE Ok(x)
          [] step.name = "max_decimal_places" ->
                IF ~IsFinite(x) THEN Ok(x)
                ELSE IF DecimalPlaces(Hundredths(x)) > a.v THEN Raise
                ELSE Ok(x)

-----------------------------------------------------------------------------
(* Lists *)

RECURSIVE ValidateType(_, _)
\* validate_type(x, t) for a plain type t, in strict mode
ValidateType(x, t) ==
    CASE t.v = "Any" -> Ok(x)
      [] t.v = "int" -> IF x.tag = "int" THEN Ok(x) ELSE Raise
      [] t.v = "float" -> IF IsNumber(x) THEN Ok(ToFloat(x)) ELSE Raise
      [] t.v = "str" -> IF x.tag = "str" THEN Ok(x) ELSE Raise
      [] t.v = "list" ->
            IF x.tag # "list" THEN Raise
            ELSE LET items == [i \in 1..Len(x.v) |-> ValidateType(x.v[i], t.item)]
                 IN  IF \E i \in 1..Len(items) : ~items[i].ok THEN Raise
                     ELSE Ok(ListV([i \in 1..Len(items) |-> items[i].v]))

\* sorted() can compare the elements: all numbers, or all strings
Orderable(l) ==
    \/ \A i \in 1..Len(l) : IsFinite(l[i])
    \/ \A i \in 1..Len(l) : l[i].tag = "str"

\* the rank of an element among those it is comparable with (strings of
\* one letter by that letter)
SortKey(y) ==
    IF y.tag # "str" THEN Hundredths(y)
    ELSE IF y.v = <<>> THEN 0
    ELSE CASE y.v[1] = "a" -> 1 [] y.v[1] = "b" -> 2 [] OTHER -> 3

RECURSIVE SortedSeq(_, _)
\* sorted(l, reverse=desc): a stable sort
SortedSeq(l, desc) ==
    IF l = <<>> THEN <<>>
    ELSE LET front == SortedSeq(SubSeq(l, 1, Len(l) - 1), desc)
             e == l[Len(l)]
             before(y) == IF desc THEN SortKey(y) >= SortKey(e)
                          ELSE SortKey(y) <= SortKey(e)
             k == Cardinality({i \in 1..Len(front) : before(front[i])})
         IN  SubSeq(front, 1, k) \o <<e>> \o SubSeq(front, k + 1, Len(front))

\* the mutated variant takes the scalar reading whenever it validates
coerce_scalar_validator_guess(coerce_scalar, item_type, x) ==
    LET valid_as_scalar == ValidateType(x, item_type).ok
    IN  IF coerce_scalar /\ valid_as_scalar THEN Ok(ListV(<<x>>)) ELSE Ok(x)

\* a variant that wraps whatever it is given
coerce_scalar_validator_wrap(coerce_scalar, item_type, x) ==
    IF coerce_scalar THEN Ok(ListV(<<x>>)) ELSE Ok(x)

\* the closure returned by make_validator_coerce_scalar
coerce_scalar_validator(coerce_scalar, item_type, x) ==
    LET valid_as_scalar == ValidateType(x, item_type).ok
        valid_as_list == ValidateType(ListV(<<x>>), item_type).ok
    IN  IF ~coerce_scalar THEN Ok(x)
        ELSE IF valid_as_scalar /\ valid_as_list THEN Raise
        ELSE IF valid_as_scalar THEN Ok(ListV(<<x>>))
        ELSE Ok(x)

\* the closures returned by the ListLike factories
ApplyListLike(step, x) ==
    LET a == step.arg
    IN  CASE step.name = "none_to_empty" ->
                IF a.v /\ IsNone(x) THEN Ok(ListV(<<>>)) ELSE Ok(x)
          [] step.name = "coerce_scalar" ->
                coerce_scalar_validator(a.v[1].v, a.v[2], x)
          [] step.name = "iterable_to_list" ->
                IF ~a.v THEN Ok(x)
                ELSE IF x.tag \in {"list", "ndarray"} THEN Ok(ListV(x.v))
                ELSE IF x.tag = "str"
                THEN Ok(ListV([i \in 1..Len(x.v) |-> StrV(<<x.v[i]>>)]))
                ELSE Raise
          [] step.name = "length" ->
                IF Len(x.v) # a.v THEN Raise ELSE Ok(x)
          [] step.name = "unique_items" ->
                IF a.v /\ Len(x.v) # Cardinality({x.v[i] : i \in 1..Len(x.v)})
                THEN Raise ELSE Ok(x)
          [] step.name = "is_sorted" ->
                IF a.v /\ ~Orderable(x.v) THEN RaiseType
                ELSE IF a.v /\ SortedSeq(x.v, FALSE) # x.v THEN Raise
                ELSE Ok(x)
          [] step.name = "is_sorted_reverse" ->
                IF a.v /\ ~Orderable(x.v) THEN RaiseType
                ELSE IF a.v /\ SortedSeq(x.v, TRUE) # x.v THEN Raise
                ELSE Ok(x)
          [] step.name = "sort" ->
                IF a.v /\ ~Orderable(x.v) THEN RaiseType
                ELSE IF a.v THEN Ok(ListV(SortedSeq(x.v, FALSE)))
                ELSE Ok(x)
          [] step.name = "sort_reverse" ->
                IF a.v /\ ~Orderable(x.v) THEN RaiseType
                ELSE IF a.v THEN Ok(ListV(SortedSeq(x.v, TRUE)))
                ELSE Ok(x)

-----------------------------------------------------------------------------
(* The engine applies a validator *)

\* the mutated variant hands on the list it was given
ListField_raw(x, t, field) ==
    IF ValidateType(x, t).ok THEN Ok(x) ELSE Raise

\* list[item_type] with Field(min_length, max_length): the list of the
\* validated elements
ListField(x, t, field) ==
    LET r == ValidateType(x, t)
        min_length == FieldArg(field, "min_length")
        max_length == FieldArg(field, "max_length")
    IN  IF ~r.ok THEN Raise
        ELSE IF ~IsNone(min_length) /\ Len(x.v) < min_length.v THEN Raise
        ELSE IF ~IsNone(max_length) /\ Len(x.v) > max_length.v THEN Raise
        ELSE r

\* base-type conversion and field checks
ApplyField(step, x) ==
    LET t == step.arg.type
        field == step.arg.v
    IN  CASE t.v = "str" -> IF x.tag = "str" THEN Ok(x) ELSE Raise
          [] t.v = "Path" -> IF x.tag = "path" THEN Ok(x) ELSE Raise
          [] t.v = "float" ->
                IF IsNumber(x) /\ BoundsOk(x, field) THEN Ok(ToFloat(x))
                ELSE Raise
          [] t.v = "int" ->
                IF IsFinite(x) /\ Hundredths(x) % 100 = 0 /\ BoundsOk(x, field)
                THEN Ok(IntV(Hundredths(x) \div 100))
                ELSE Raise
          [] t.v = "list" -> ListField(x, t, field)

\* the elements of a list whose errors the failed field checks report: with
\* fail_fast the list validation stops at the first element that fails
ElementErrors(step, x) ==
    IF step.stage # "field" \/ step.arg.type.v # "list" \/ x.tag # "list"
    THEN {}
    ELSE LET bad == {i \in 1..Len(x.v) :
                        ~ValidateType(x.v[i], step.arg.type.item).ok}
         IN  IF bad = {} THEN {}
             ELSE IF FieldArg(step.arg.v, "fail_fast") = BoolV(TRUE)
             THEN {CHOOSE i \in bad : \A j \in bad : i <= j}
             ELSE bad

\* one validator applied to value x in filesystem f: what it returns or
\* raises, and the filesystem it leaves
ApplyStep(cls, step, x, f) ==
    IF step.stage = "field" THEN Pure(ApplyField(step, x), f)
    ELSE CASE cls = "StrLike" -> Pure(ApplyStrLike(step, x), f)
           [] cls = "PathLike" -> ApplyPathLike(step, x, f)
           [] cls \in {"IntLike", "FloatLike"} -> Pure(ApplyNumLike(step, x), f)
           [] cls = "ListLike" -> Pure(ApplyListLike(step, x), f)

RECURSIVE RunFrom(_, _, _, _, _)
\* the whole evaluation of value x from validator i on: the outcome, the
\* failure if any, and the filesystem left
RunFrom(cls, sts, i, x, f) ==
    IF i > Len(sts)
    THEN [phase |-> "Succeeded", val |-> x, failed |-> "", seen |-> NoneV,
          fs |-> f]
    ELSE LET r == ApplyStep(cls, sts[i], x, f)
         IN  IF r.ok THEN RunFrom(cls, sts, i + 1, r.v, r.fs)
             ELSE [phase |-> "Failed", val |-> NoneV, failed |-> sts[i].name,
                   seen |-> x, fs |-> r.fs]

\* validate_type(x, built type)
Evaluate(cls, sts, x, f) == RunFrom(cls, sts, 1, x, f)

-----------------------------------------------------------------------------
(* Declarations and inputs explored by the model *)

foobar == <<"f", "o", "o", "b", "a", "r">>

StrLikeEntries ==
    { <<"replace", TupleV(StrV(<<"f", "o", "o">>), StrV(<<"X">>))>>,
      <<"replace", TupleV(StrV(<<"o">>), StrV(<<"0">>))>>,
      <<"endswith", StrV(<<"b", "a", "r">>)>>,
      <<"max_length", IntV(4)>>,
      <<"none_to_empty", BoolV(TRUE)>>,
      <<"title", StrV(<<"A">>)>>,
      <<"strip", NoneV>>,
      <<"bogus", BoolV(TRUE)>>,
      <<"bogus", NoneV>> }

PathLikeEntries ==
    { <<"endswith", StrV(<<".csv", ";", ".CSV">>)>>,
      <<"exist", BoolV(TRUE)>>,
      <<"create_as_file", BoolV(TRUE)>>,
      <<"with_suffix", StrV(<<".log">>)>>,
      <<"writable", BoolV(TRUE)>>,
      <<"title", StrV(<<"A">>)>>,
      <<"bogus", NoneV>> }

IntLikeEntries ==
    { <<"gt", IntV(1)>>, <<"lt", IntV(3)>>, <<"title", StrV(<<"A">>)>>,
      <<"bogus", BoolV(TRUE)>> }

FloatLikeEntries ==
    { <<"allow_nan", BoolV(TRUE)>>,
      <<"allow_inf", BoolV(TRUE)>>,
      <<"gt", IntV(1)>>,
      <<"max_decimal_places", IntV(1)>>,
      <<"title", StrV(<<"A">>)>>,
      <<"bogus", BoolV(TRUE)>> }

ListLikeEntries ==
    { <<"item_type", TypeV("int")>>,
      <<"item_type", TypeV("Any")>>,
      <<"item_type", TypeV("float")>>,
      <<"coerce_scalar", BoolV(TRUE)>>,
      <<"none_to_empty", BoolV(TRUE)>>,
      <<"unique_items", BoolV(TRUE)>>,
      <<"sorted", BoolV(TRUE)>>,
      <<"sort", BoolV(TRUE)>>,
      <<"sort_reverse", BoolV(TRUE)>> }

Entries(cls) ==
    CASE cls = "StrLike" -> StrLikeEntries
      [] cls = "PathLike" -> PathLikeEntries
      [] cls = "IntLike" -> IntLikeEntries
      [] cls = "FloatLike" -> FloatLikeEntries
      [] cls = "ListLike" -> ListLikeEntries

DirD == [stem |-> "d", suffix |-> ""]
FileCsv == [stem |-> "f", suffix |-> ".csv"]
FileTxt == [stem |-> "f", suffix |-> ".txt"]

\* the filesystems an evaluation may start in
FsInits(cls) ==
    IF cls # "PathLike" THEN {NoFs}
    ELSE { NoFs,
           [dirs |-> {<<>>}, files |-> {}, nowrite |-> {<<>>}, noread |-> {}],
           [dirs |-> {<<>>, <<DirD>>}, files |-> {<<DirD, FileCsv>>},
            nowrite |-> {}, noread |-> {}],
           [dirs |-> {<<>>, <<DirD>>}, files |-> {},
            nowrite |-> {<<DirD>>}, noread |-> {}] }

foofoo == <<"f", "o", "o", "f", "o", "o">>

Inputs(cls) ==
    CASE cls = "StrLike" -> {StrV(foobar), StrV(foofoo), NoneV}
      [] cls = "PathLike" -> {PathV(<<DirD, FileCsv>>), PathV(<<DirD, FileTxt>>)}
      [] cls = "IntLike" ->
            {IntV(2), FloatV("fin", 200), FloatV("fin", 220), NaN, StrV(<<"2">>)}
      [] cls = "FloatLike" ->
            {FloatV("fin", 220), FloatV("fin", 225), NaN, PosInf, NegInf,
             IntV(3), ArrayV(<<FloatV("fin", 220)>>), StrV(<<"2">>)}
      [] cls = "ListLike" ->
            {ListV(<<IntV(3), IntV(1), IntV(2), IntV(1)>>),
             ListV(<<IntV(1), IntV(2), IntV(3)>>),
             ListV(<<IntV(3), IntV(1), IntV(2)>>),
             ListV(<<StrV(<<"a">>), IntV(1), StrV(<<"b">>)>>),
             IntV(2), NoneV}

UserOrderKinds == {"StrLike", "PathLike"}

\* keyword arguments cannot repeat a name; the config list can
NamedCalls(cls) ==
    {c \in SeqsUpTo(Entries(cls), MaxDecl) : DistinctNames(c)}

ConfigCalls(cls) ==
    {<< <<"config", PairsV(c)>> >> : c \in SeqsUpTo(Entries(cls), MaxDecl)}

MixedCalls(cls) ==
    LET short == SeqsUpTo(Entries(cls), 1)
    IN  {<< <<"config", PairsV(c)>>, e >> : c \in short, e \in Entries(cls)}
        \cup {<< e, <<"config", PairsV(c)>> >> : c \in short, e \in Entries(cls)}

UserCalls(cls) == NamedCalls(cls) \cup ConfigCalls(cls) \cup MixedCalls(cls)

-----------------------------------------------------------------------------
(* State machine: build a type, then evaluate values against it *)

NoFailure ==
    [step |-> "", stage |-> "", index |-> 0, seen |-> NoneV, exc |-> "none",
     elements |-> {}]
NoMeta == [title |-> NoneV, description |-> NoneV, examples |-> NoneV]
NoPop == [done |-> FALSE, before |-> <<>>, key |-> "", default |-> NoneV,
          ret |-> NoneV]

\* no guarded function is being called
NoGuard ==
    [pc |-> "none", sig |-> <<>>, ret |-> <<>>, args |-> <<>>, k |-> 0,
     values |-> <<>>, errors |-> {}, ran |-> FALSE, received |-> <<>>,
     result |-> NoneV, delivered |-> NoneV]

\* no concurrent evaluations
NoConc == [fs0 |-> NoFs, ev |-> <<>>]

InitCommon ==
    /\ phase = "Declared"
    /\ buildErr = "none"
    /\ meta = NoMeta
    /\ steps = <<>>
    /\ input = NoneV
    /\ val = NoneV
    /\ idx = 0
    /\ trace = <<>>
    /\ failure = NoFailure
    /\ md = <<>>
    /\ pop = NoPop
    /\ conc = NoConc

InitUnguarded ==
    /\ InitCommon
    /\ guard = NoGuard

InitUser ==
    /\ kind \in UserOrderKinds
    /\ call \in UserCalls(kind)
    /\ fs \in FsInits(kind)
    /\ InitUnguarded

StdOrderKinds == {"IntLike", "FloatLike", "ListLike"}

\* strings random.choices may return (8 characters each)
RandomStrs == {"aaaaaaaa", "bbbbbbbb"}

\* the factory calls of a build that draw a random string
Drawing(sts) == {i \in 1..Len(sts) : sts[i].name = "with_random_part"}

\* one draw for each of them
Draws(sts) == [Drawing(sts) -> RandomStrs]

\* the validators with the drawn strings in their closures
Capture(sts, d) ==
    [i \in 1..Len(sts) |->
        IF i \in Drawing(sts) THEN [sts[i] EXCEPT !.captured = d[i]]
        ELSE sts[i]]

\* the class call
BuildCall(cls, kwargs) ==
    IF cls \in UserOrderKinds THEN call_real_new(cls, kwargs)
    ELSE std_new(cls, kwargs)

\* factories that would work on the filesystem as soon as they are called
BuildFs_eager(cls, kwargs, f) ==
    IF cls = "PathLike" THEN [f EXCEPT !.dirs = @ \cup {<<DirD>>}] ELSE f

\* the filesystem after a build: the factories only return closures
BuildFs(cls, kwargs, f) == f

Build ==
    /\ phase = "Declared"
    /\ LET r == BuildCall(kind, call)
       IN  IF r.err # "none"
           THEN /\ phase' = "BuildFailed"
                /\ buildErr' = r.err
                /\ UNCHANGED <<meta, steps>>
           ELSE /\ phase' = "Built"
                /\ buildErr' = "none"
                /\ meta' = [title |-> FieldArg(r.annotated.field, "title"),
                            description |->
                                FieldArg(r.annotated.field, "description"),
                            examples |-> FieldArg(r.annotated.field, "examples")]
                /\ \E d \in Draws(EngineSteps(r.annotated)) :
                      steps' = Capture(EngineSteps(r.annotated), d)
    /\ fs' = BuildFs(kind, call, fs)
    /\ UNCHANGED <<kind, call, input, val, idx, trace, failure, md, pop, guard, conc>>

\* validate_type(value, built type) starts
Start ==
    /\ phase = "Built"
    /\ \E x \in Inputs(kind) :
          /\ input' = x
          /\ val' = x
    /\ phase' = "Running"
    /\ idx' = 1
    /\ trace' = <<>>
    /\ failure' = NoFailure
    /\ UNCHANGED <<kind, call, buildErr, meta, steps, fs, md, pop, guard, conc>>

\* the mutated engine goes on to the next validator after one has raised
AfterStepPhase_collect(ok, i, n) ==
    IF i < n THEN "Running" ELSE IF ok THEN "Succeeded" ELSE "Failed"

\* an engine that does not return after the last validator
AfterStepPhase_stall(ok, i, n) == IF ~ok THEN "Failed" ELSE "Running"

\* a validator that raises ends the evaluation; the last one that returns
\* ends it with the value it returned
AfterStepPhase(ok, i, n) ==
    IF ~ok THEN "Failed" ELSE IF i = n THEN "Succeeded" ELSE "Running"

\* the mutated engine keeps the value it had
Carried_kept(r, x) == x

\* the value handed to the next validator: what this one returned
Carried(r, x) == IF r.ok THEN r.v ELSE x

\* one validator is applied to the carried value
\* an evaluator that undoes the earlier steps' changes when a step fails
AfterStepFs_rollback(r, t, f) ==
    IF r.ok THEN r.fs ELSE IF t = <<>> THEN f ELSE t[1].fs

\* the filesystem after a step: what the step left, whether it failed or
\* not; nothing is deleted
AfterStepFs(r, t, f) == r.fs

Step ==
    /\ phase = "Running"
    /\ idx \in 1..Len(steps)
    /\ LET r == ApplyStep(kind, steps[idx], val, fs)
       IN  /\ trace' = Append(trace, [index |-> idx, seen |-> val,
                                     ok |-> r.ok, out |-> r.v,
                                     fs |-> fs, left |-> r.fs])
           /\ fs' = AfterStepFs(r, trace, fs)
           /\ phase' = AfterStepPhase(r.ok, idx, Len(steps))
           /\ val' = Carried(r, val)
           /\ idx' = idx + 1
           /\ failure' = IF r.ok THEN failure
                         ELSE [step |-> steps[idx].name,
                               stage |-> steps[idx].stage,
                               index |-> idx,
                               seen |-> val,
                               exc |-> r.exc,
                               elements |-> ElementErrors(steps[idx], val)]
    /\ UNCHANGED <<kind, call, buildErr, meta, steps, input, md, pop, guard, conc>>

NextUser == Build \/ Start \/ Step

\* path contracts that change names and the filesystem
PathFsEntries ==
    { <<"with_random_part", BoolV(TRUE)>>,
      <<"with_suffix", StrV(<<".log">>)>>,
      <<"create_as_file", BoolV(TRUE)>>,
      <<"create_as_dir", BoolV(TRUE)>>,
      <<"create_parents", BoolV(TRUE)>>,
      <<"writable", BoolV(TRUE)>> }

PathCalls ==
    {<< <<"config", PairsV(c)>> >> : c \in SeqsUpTo(PathFsEntries, MaxPathDecl)}

InitPath ==
    /\ kind = "PathLike"
    /\ call \in PathCalls
    /\ fs \in FsInits(kind)
    /\ InitUnguarded

NextPath == Build \/ Start \/ Step

SpecPath == InitPath /\ [][NextPath]_vars

\* a standard-order call: keyword arguments only, no name twice
StdCalls(cls) ==
    {c \in SeqsUpTo(Entries(cls), MaxStdDecl) : DistinctNames(c)}

InitStd ==
    /\ kind \in StdOrderKinds
    /\ call \in StdCalls(kind)
    /\ fs = NoFs
    /\ InitUnguarded

NextStd == Build \/ Start \/ Step

SpecStd == InitStd /\ [][NextStd]_vars

SpecUser == InitUser /\ [][NextUser]_vars

-----------------------------------------------------------------------------
(* State machine of the ordered constraint list alone *)

PopEntries ==
    { <<"title", StrV(<<"A">>)>>, <<"title", StrV(<<"B">>)>>,
      <<"x", IntV(1)>>, <<"y", StrV(<<"A">>)>> }

PopKeys == {"title", "x", "z"}

InitPop ==
    /\ kind = "MultiDict"
    /\ fs = NoFs
    /\ call = <<>>
    /\ InitUnguarded

\* MultiDict.add
Push ==
    /\ Len(md) < MaxPush
    /\ \E e \in PopEntries : md' = Append(md, e)
    /\ pop' = [pop EXCEPT !.done = FALSE]
    /\ UNCHANGED <<kind, call, phase, buildErr, meta, steps, input, val, idx,
                   trace, failure, fs, guard, conc>>

PopLast ==
    /\ \E key \in PopKeys, default \in {NoneV, BoolV(FALSE)} :
          LET r == popall_get_last(md, key, default)
          IN  /\ md' = r.md
              /\ pop' = [done |-> TRUE, before |-> md, key |-> key,
                         default |-> default, ret |-> r.ret]
    /\ UNCHANGED <<kind, call, phase, buildErr, meta, steps, input, val, idx,
                   trace, failure, fs, guard, conc>>

NextPop == Push \/ PopLast

SpecPop == InitPop /\ [][NextPop]_vars

-----------------------------------------------------------------------------
(* State machine: two threads evaluate values against one built type *)

ConcEntries ==
    { <<"create_as_dir", BoolV(TRUE)>>,
      <<"create_as_file", BoolV(TRUE)>>,
      <<"create_parents", BoolV(TRUE)>>,
      <<"writable", BoolV(TRUE)>>,
      <<"with_random_part", BoolV(TRUE)>> }

ConcCalls ==
    {<< <<"config", PairsV(c)>> >> : c \in SeqsUpTo(ConcEntries, MaxConcDecl)}

InitConc ==
    /\ kind = "PathLike"
    /\ call \in ConcCalls
    /\ fs \in FsInits(kind)
    /\ InitUnguarded

\* both threads call validate_type with the same value
ConcStart ==
    /\ phase = "Built"
    /\ phase' = "Concurrent"
    /\ \E x \in Inputs(kind) :
          /\ input' = x
          /\ conc' = [fs0 |-> fs,
                      ev |-> [e \in 1..2 |->
                                [phase |-> "Running", idx |-> 1, val |-> x,
                                 tested |-> FALSE, failed |-> ""]]]
    /\ UNCHANGED <<kind, call, buildErr, meta, steps, val, idx, trace, failure,
                   fs, md, pop, guard>>

\* the thread's evaluation after its current validator gave result r
ConcAfter(t, r) ==
    IF r.ok
    THEN [t EXCEPT !.phase = AfterStepPhase(TRUE, t.idx, Len(steps)),
                   !.idx = t.idx + 1,
                   !.val = r.v,
                   !.tested = FALSE]
    ELSE [t EXCEPT !.phase = "Failed",
                   !.failed = steps[t.idx].name,
                   !.tested = FALSE]

\* a thread runs its next validator up to the point where the validator
\* has looked at the filesystem and is about to create something
ConcStep(e) ==
    /\ phase = "Concurrent"
    /\ conc.ev[e].phase = "Running"
    /\ ~conc.ev[e].tested
    /\ LET t == conc.ev[e]
           st == steps[t.idx]
       IN  IF st.stage # "field" /\ NeedsAct(st, t.val, fs)
           THEN /\ conc' = [conc EXCEPT !.ev[e].tested = TRUE]
                /\ fs' = fs
           ELSE LET r == ApplyStep(kind, st, t.val, fs)
                IN  /\ conc' = [conc EXCEPT !.ev[e] = ConcAfter(t, r)]
                    /\ fs' = r.fs
    /\ UNCHANGED <<kind, call, phase, buildErr, meta, steps, input, val, idx,
                   trace, failure, md, pop, guard>>

\* the thread creates what its test found missing
ConcAct(e) ==
    /\ phase = "Concurrent"
    /\ conc.ev[e].phase = "Running"
    /\ conc.ev[e].tested
    /\ LET t == conc.ev[e]
           r == Act(steps[t.idx], t.val, fs)
       IN  /\ conc' = [conc EXCEPT !.ev[e] = ConcAfter(t, r)]
           /\ fs' = r.fs
    /\ UNCHANGED <<kind, call, phase, buildErr, meta, steps, input, val, idx,
                   trace, failure, md, pop, guard>>

NextConc == Build \/ ConcStart \/ (\E e \in 1..2 : ConcStep(e) \/ ConcAct(e))

SpecConc == InitConc /\ [][NextConc]_vars

-----------------------------------------------------------------------------
(* State machine: a call of a function wrapped by validate_types_in_func_call *)

\* annotations a parameter or the return value may carry
GuardContracts ==
    { [cls |-> "StrLike",
       call |-> << <<"title", StrV(<<"A">>)>>, <<"max_length", IntV(4)>> >>],
      [cls |-> "IntLike",
       call |-> << <<"title", StrV(<<"A">>)>>, <<"gt", IntV(1)>> >>],
      [cls |-> "PathLike",
       call |-> << <<"title", StrV(<<"A">>)>>,
                   <<"description", StrV(<<"D">>)>> >>],
      [cls |-> "PathLike",
       call |-> << <<"endswith", StrV(<<".csv">>)>>,
                   <<"title", StrV(<<"A">>)>> >>] }

\* values a caller may pass, or the body may return, for an annotation
GuardValues(c) ==
    CASE c.cls = "StrLike" -> {StrV(<<"f", "o", "o">>), StrV(foobar), IntV(2)}
      [] c.cls = "IntLike" -> {IntV(2), IntV(1), FloatV("fin", 300)}
      [] c.cls = "PathLike" ->
            {PathV(<<DirD, FileCsv>>), PathV(<<DirD, FileTxt>>), IntV(2)}

\* the annotation as the class call built it
AnnotatedOf(c) == BuildCall(c.cls, c.call).annotated

\* validation of one value against an annotation by validate_call
GuardValidate(c, x) == Evaluate(c.cls, EngineSteps(AnnotatedOf(c)), x, NoFs)

\* the extras of Annotated[type, Field(...), *before, *after]
ExtrasOf(annotated) ==
    << [obj |-> "FieldInfo",
        title |-> FieldArg(annotated.field, "title"),
        description |-> FieldArg(annotated.field, "description"),
        examples |-> FieldArg(annotated.field, "examples")] >>
    \o [i \in 1..(Len(annotated.before) + Len(annotated.after)) |->
            [obj |-> "Validator"]]

\* getattr(ex, name, None) for name in title, description, examples
GetAttr(ex, name) ==
    IF name \notin DOMAIN ex THEN NoneV
    ELSE CASE name = "title" -> ex.title
           [] name = "description" -> ex.description
           [] name = "examples" -> ex.examples

\* _get_extras for the error location arg (0: no argument name) and the
\* annotation of that parameter: every extra overwrites what the one before
\* it gave
get_extras(arg, annotated) ==
    LET extras == ExtrasOf(annotated)
        last == extras[Len(extras)]
    IN  IF arg = 0
        THEN [title |-> NoneV, description |-> NoneV, examples |-> NoneV]
        ELSE [title |-> GetAttr(last, "title"),
              description |-> GetAttr(last, "description"),
              examples |-> GetAttr(last, "examples")]

\* the rebuilt error detail of parameter loc
ErrorDetail(loc, extras, r) ==
    [loc |-> loc, title |-> extras.title, description |-> extras.description,
     examples |-> extras.examples, failed |-> r.failed]

\* the mutated variant calls the function whatever the arguments gave
BodyMayRun_unchecked(errors, k, n) == k = n

\* validate_call calls the function once every argument is validated and
\* none has failed
BodyMayRun(errors, k, n) == k = n /\ errors = {}

InitGuard ==
    /\ kind = "Guard"
    /\ call = <<>>
    /\ fs = NoFs
    /\ InitCommon
    /\ \E p1 \in GuardContracts, p2 \in GuardContracts, ret \in GuardContracts :
          \E a1 \in GuardValues(p1), a2 \in GuardValues(p2) :
              guard = [NoGuard EXCEPT !.pc = "args",
                                      !.sig = <<p1, p2>>,
                                      !.ret = ret,
                                      !.args = <<a1, a2>>]

\* validate_call validates the next argument
GuardArg ==
    /\ guard.pc = "args"
    /\ guard.k < Len(guard.sig)
    /\ LET loc == guard.k + 1
           c == guard.sig[loc]
           r == GuardValidate(c, guard.args[loc])
       IN  guard' = [guard EXCEPT
                        !.k = loc,
                        !.values = Append(@, r.val),
                        !.errors =
                            IF r.phase = "Failed"
                            THEN @ \cup {ErrorDetail(
                                            loc,
                                            get_extras(loc, AnnotatedOf(c)),
                                            r)}
                            ELSE @]
    /\ UNCHANGED <<kind, call, phase, buildErr, meta, steps, input, val, idx,
                   trace, failure, fs, md, pop, conc>>

\* the wrapper re-raises the argument errors
GuardRaise ==
    /\ guard.pc = "args"
    /\ guard.k = Len(guard.sig)
    /\ guard.errors # {}
    /\ guard' = [guard EXCEPT !.pc = "raised"]
    /\ UNCHANGED <<kind, call, phase, buildErr, meta, steps, input, val, idx,
                   trace, failure, fs, md, pop, conc>>

\* the function body runs on the validated values and returns something
GuardBody ==
    /\ guard.pc = "args"
    /\ BodyMayRun(guard.errors, guard.k, Len(guard.sig))
    /\ \E out \in GuardValues(guard.ret) :
          guard' = [guard EXCEPT !.pc = "return",
                                 !.ran = TRUE,
                                 !.received = guard.values,
                                 !.result = out]
    /\ UNCHANGED <<kind, call, phase, buildErr, meta, steps, input, val, idx,
                   trace, failure, fs, md, pop, conc>>

\* validate_return: the returned value is validated, then handed over
GuardReturn ==
    /\ guard.pc = "return"
    /\ LET r == GuardValidate(guard.ret, guard.result)
       IN  guard' =
              IF r.phase = "Failed"
              THEN [guard EXCEPT
                       !.pc = "raised",
                       !.errors =
                           {ErrorDetail(0,
                                        get_extras(0, AnnotatedOf(guard.ret)),
                                        r)}]
              ELSE [guard EXCEPT !.pc = "returned", !.delivered = r.val]
    /\ UNCHANGED <<kind, call, phase, buildErr, meta, steps, input, val, idx,
                   trace, failure, fs, md, pop, conc>>

NextGuard == GuardArg \/ GuardRaise \/ GuardBody \/ GuardReturn

SpecGuard == InitGuard /\ [][NextGuard]_vars

-----------------------------------------------------------------------------
(* Vocabulary of the properties *)

MetaNames == {"title", "description", "examples"}

\* the ordered list of (name, argument) pairs the caller declared
Decl == IF "config" \in Names(call) /\ Len(call) = 1 THEN call[1][2].v ELSE call

Evaluating == phase \in {"Running", "Succeeded", "Failed"}

\* (name, argument) of the validators applied so far whose stage is in stages
Executed(stages) ==
    LET applied == [i \in 1..Len(trace) |-> steps[trace[i].index]]
        chosen == SelectSeq(applied, LAMBDA st : st.stage \in stages)
    IN  [i \in 1..Len(chosen) |-> <<chosen[i].name, chosen[i].arg>>]

IsPrefix(s, t) == Len(s) <= Len(t) /\ s = SubSeq(t, 1, Len(s))

LastIndexOf(pairs, name) ==
    LET hits == {i \in 1..Len(pairs) : pairs[i][1] = name}
    IN  IF hits = {} THEN 0 ELSE CHOOSE i \in hits : \A j \in hits : j <= i

\* every reordering of a sequence
Perms(s) ==
    LET n == Len(s)
        bij == {f \in [1..n -> 1..n] : \A i, j \in 1..n : f[i] = f[j] => i = j}
    IN  {[i \in 1..n |-> s[f[i]]] : f \in bij}

\* what the caller of a finished evaluation observes
Observed ==
    [phase |-> phase,
     val |-> IF phase = "Succeeded" THEN val ELSE NoneV,
     failed |-> failure.step,
     seen |-> failure.seen]

\* the same four fields of a whole evaluation
Outcome(r) ==
    [phase |-> r.phase, val |-> r.val, failed |-> r.failed, seen |-> r.seen]

\* the argument the caller declared for an option, or the default
Declared(name, default) ==
    LET i == LastIndexOf(call, name)
    IN  IF i = 0 THEN default ELSE call[i][2]

\* index of the validator called name in the built contract, 0 if none
StepIndex(name) ==
    LET hits == {i \in 1..Len(steps) : steps[i].name = name}
    IN  IF hits = {} THEN 0 ELSE CHOOSE i \in hits : TRUE

\* the call with the entries at positions i and j exchanged
Swap(c, i, j) ==
    [k \in 1..Len(c) |-> IF k = i THEN c[j] ELSE IF k = j THEN c[i] ELSE c[k]]

-----------------------------------------------------------------------------
(* Properties *)

Singletons(cls) ==
    IF cls = "StrLike" THEN MetaNames \cup {"none_to_empty"} ELSE MetaNames

C3_FailFast ==
    (failure # NoFailure \/ phase = "Failed") =>
        /\ phase = "Failed"
        /\ failure.index \in 1..Len(steps)
        /\ failure.step = steps[failure.index].name
        /\ ~ApplyStep(kind, steps[failure.index], failure.seen, fs).ok
        /\ [i \in 1..Len(trace) |-> trace[i].index]
              = [i \in 1..failure.index |-> i]

\* a validator after the failing one would have raised on the same value
C3_Witness ==
    /\ phase = "Failed"
    /\ failure.stage = "post"
    /\ \E j \in (failure.index + 1)..Len(steps) :
          ~ApplyStep(kind, steps[j], failure.seen, fs).ok

\* C4: pop_last returns the argument of the last entry pushed under the name
\* (the default when there is none), removes every entry of that name and
\* keeps the other entries in their relative order.
C4_PopLast ==
    pop.done =>
        LET last == LastIndexOf(pop.before, pop.key)
        IN  /\ pop.ret = IF last = 0 THEN pop.default ELSE pop.before[last][2]
            /\ \A i \in 1..Len(md) : md[i][1] # pop.key
            /\ md = SelectSeq(pop.before, LAMBDA e : e[1] # pop.key)

\* [(title,A),(x,1),(title,B)] popped for title gives B and leaves [(x,1)]
C4_Witness ==
    /\ pop.done
    /\ pop.key = "title"
    /\ pop.before = << <<"title", StrV(<<"A">>)>>, <<"x", IntV(1)>>,
                       <<"title", StrV(<<"B">>)>> >>
    /\ pop.ret = StrV(<<"B">>)
    /\ md = << <<"x", IntV(1)>> >>

TwoReplaces ==
    << <<"replace", TupleV(StrV(<<"f", "o", "o">>), StrV(<<"X">>))>>,
       <<"replace", TupleV(StrV(<<"o">>), StrV(<<"0">>))>> >>

ReplacedTwice ==
    /\ kind = "StrLike"
    /\ phase = "Succeeded"
    /\ Decl = TwoReplaces
    /\ input = StrV(foobar)

\* C5 as stated: replace foo->X then o->0 on "foobar" yields "X0bar".
C5_AsStated == ReplacedTwice => val = StrV(<<"X", "0", "b", "a", "r">>)

\* C5 (amended): both replace steps run in declared order, the second on the
\* output of the first, and "foobar" yields "Xbar" (the first step leaves no
\* "o" for the second).
C5_ReplaceTwice ==
    ReplacedTwice =>
        /\ Executed({"post"}) = TwoReplaces
        /\ val = StrV(<<"X", "b", "a", "r">>)

C5_Witness == ReplacedTwice /\ val = StrV(<<"X", "b", "a", "r">>)

\* C6: a user-order build call that passes config together with another
\* keyword fails with the ambiguous-declaration error and builds nothing; a
\* call with config alone or keywords alone never fails with that error.
C6_Ambiguous ==
    (kind \in UserOrderKinds /\ phase # "Declared") =>
        LET both == "config" \in Names(call) /\ Names(call) # {"config"}
        IN  /\ both => (phase = "BuildFailed" /\ steps = <<>>)
            /\ both <=> (buildErr = "AmbiguousDeclaration")

C6_Witness ==
    /\ kind \in UserOrderKinds
    /\ phase = "BuildFailed"
    /\ buildErr = "AmbiguousDeclaration"
    /\ Len(call) = 2
    /\ call[2][1] = "config"
    /\ IsNone(call[1][2])

\* C7: every constraint name of a declaration that builds resolves to a
\* factory of the class, whatever the entry's position and argument.
C7_NamesResolve ==
    phase \in {"Built", "Running", "Succeeded", "Failed"} =>
        \A i \in 1..Len(Decl) :
            Decl[i][1] \in MetaNames \cup Factories(kind)

\* C2: a standard-order build call gives the same build result for every
\* reordering of its keyword arguments: the same build error, or else the
\* same validator sequence, and the reordered contract evaluates every input
\* as the contract that was built does, which is how the evaluation run
\* step by step ends.
C2_OrderInvariant ==
    /\ (kind \in StdOrderKinds /\ phase \in {"BuildFailed", "Built"}) =>
          \A q \in Perms(call) :
              LET r == BuildCall(kind, q)
              IN  /\ r.err = buildErr
                  /\ buildErr = "none" =>
                        /\ EngineSteps(r.annotated) = steps
                        /\ \A x \in Inputs(kind) :
                              Evaluate(kind, EngineSteps(r.annotated), x, NoFs)
                                  = Evaluate(kind, steps, x, NoFs)
    /\ (kind \in StdOrderKinds /\ phase \in {"Succeeded", "Failed"}) =>
          Outcome(Evaluate(kind, steps, input, NoFs)) = Observed

C2_Witness ==
    /\ kind = "ListLike"
    /\ phase = "Succeeded"
    /\ Len(call) = 3
    /\ call[1][1] = "sort"
    /\ call[2][1] = "unique_items"
    /\ call[3][1] = "item_type"
    /\ StepIndex("unique_items") < StepIndex("sort")
    /\ Len(trace) = Len(steps)

\* C8: in a list contract with coerce_scalar declared true, the coerce_scalar
\* validator raises whenever the value it receives validates against the
\* item type both as it is and wrapped in a one-element list; in particular
\* a bare scalar against item type Any ends the evaluation with the failure
\* of coerce_scalar, and nothing is returned.
C8_AmbiguousCoercion ==
    (kind = "ListLike" /\ Evaluating
        /\ Declared("coerce_scalar", BoolV(FALSE)) = BoolV(TRUE)) =>
        \A i \in 1..Len(trace) :
            steps[trace[i].index].name = "coerce_scalar" =>
                LET x == trace[i].seen
                    item_type == Declared("item_type", NoneV)
                    both == /\ ValidateType(x, item_type).ok
                            /\ ValidateType(ListV(<<x>>), item_type).ok
                IN  /\ both =>
                          /\ ~trace[i].ok
                          /\ phase = "Failed"
                          /\ failure.step = "coerce_scalar"
                          /\ failure.seen = x
                    /\ (item_type = TypeV("Any") /\ x.tag = "int") => both
                    /\ ~both => trace[i].ok

C8_Witness ==
    /\ kind = "ListLike"
    /\ phase = "Failed"
    /\ Declared("coerce_scalar", BoolV(FALSE)) = BoolV(TRUE)
    /\ Declared("item_type", NoneV) = TypeV("Any")
    /\ input = IntV(2)
    /\ failure.step = "coerce_scalar"
    /\ failure.seen = IntV(2)

\* the float contract declares none of the bounds gt, ge, lt, le
NoBound == Names(call) \cap {"gt", "ge", "lt", "le"} = {}

\* the evaluation got as far as the validators after the field checks
PastField ==
    /\ phase \in {"Succeeded", "Failed"}
    /\ failure.stage \notin {"pre", "field"}

BothDeclared ==
    /\ kind = "ListLike"
    /\ Declared("unique_items", NoneV) = BoolV(TRUE)
    /\ Declared("sort", NoneV) = BoolV(TRUE)

\* the declaration with unique_items and sort in each other's place
Swapped ==
    Swap(call, LastIndexOf(call, "unique_items"), LastIndexOf(call, "sort"))

reference == ListV(<<IntV(3), IntV(1), IntV(2), IntV(1)>>)

\* C10 as stated: for a list contract declaring unique_items and sort, some
\* input ends differently when the two are declared in the other order.
C10_AsStated ==
    (BothDeclared /\ phase = "Built") =>
        \E x \in Inputs(kind) :
            Outcome(Evaluate(kind, steps, x, NoFs))
                # Outcome(Evaluate(kind,
                                   EngineSteps(BuildCall(kind, Swapped).annotated),
                                   x, NoFs))

\* C10: for a list contract declaring unique_items and sort, unique_items
\* runs before sort whichever was declared first, and it receives the list
\* the field checks returned, in input order; every input ends the same way
\* under either declaration order, and [3,1,2,1] is rejected: by unique_items
\* on the unsorted list of its elements as the item type returns them, unless
\* a validator before the field checks raised.
C10_FixedPosition ==
    (BothDeclared /\ phase \in {"Built", "Succeeded", "Failed"}) =>
        LET u == StepIndex("unique_items")
            other == EngineSteps(BuildCall(kind, Swapped).annotated)
        IN  /\ 0 < u
            /\ StepIndex("field") < u
            /\ u < StepIndex("sort")
            /\ other = steps
            /\ phase # "Built" =>
                  /\ Outcome(Evaluate(kind, other, input, NoFs)) = Observed
                  /\ \A i \in 2..Len(trace) :
                        trace[i].index = u =>
                            /\ trace[i - 1].index = StepIndex("field")
                            /\ trace[i].seen = trace[i - 1].out
                  /\ input = reference =>
                        /\ phase = "Failed"
                        /\ failure.stage # "pre" =>
                              /\ failure.step = "unique_items"
                              /\ failure.seen =
                                    ValidateType(
                                        reference,
                                        ListTypeV(Declared("item_type", NoneV))).v

C10_Witness ==
    /\ BothDeclared
    /\ LastIndexOf(call, "sort") < LastIndexOf(call, "unique_items")
    /\ input = reference
    /\ phase = "Failed"
    /\ failure.step = "unique_items"
    /\ failure.seen = reference

\* the calls made so far to the validator called name with a true flag
Calls(name) ==
    {i \in 1..Len(trace) :
        /\ steps[trace[i].index].name = name
        /\ steps[trace[i].index].arg = BoolV(TRUE)}

\* the proper ancestors of a path, the root included
Ancestors(p) == {SubSeq(p, 1, k) : k \in 0..(Len(p) - 1)}

\* os.access(a, os.W_OK) read off the filesystem record
Writable(f, a) == a \in (f.dirs \cup f.files) \ f.nowrite

Nearest(f, p) ==
    CHOOSE a \in Ancestors(p) :
        /\ a \in (f.dirs \cup f.files)
        /\ \A b \in Ancestors(p) :
              b \in (f.dirs \cup f.files) => Len(b) <= Len(a)

\* C12: called on a path that does not exist and whose nearest existing
\* ancestor is not writable, the writable validator raises.
C12_NearestParent ==
    (kind = "PathLike" /\ Evaluating) =>
        \A i \in Calls("writable") :
            LET p == trace[i].seen.v
                f == trace[i].fs
            IN  (p \notin (f.dirs \cup f.files) /\ ~Writable(f, Nearest(f, p)))
                    => ~trace[i].ok

\* the validators of the built contract before any string was drawn
Undrawn == [i \in 1..Len(steps) |-> [steps[i] EXCEPT !.captured = ""]]

\* C13: a second build of the same user-order declaration, whatever its
\* factories draw, evaluates the same input in the same filesystem to the
\* result the first build's contract gave.
C13_BuildPure ==
    (kind \in UserOrderKinds /\ phase \in {"Succeeded", "Failed"}) =>
        \A d \in Draws(Undrawn) :
            Outcome(Evaluate(kind, Capture(Undrawn, d), input, trace[1].fs))
                = Observed

\* the elements of the list the field checks received that are not of the
\* declared item type
FailingElements ==
    LET x == failure.seen
        item_type == Declared("item_type", NoneV)
    IN  {i \in 1..Len(x.v) : item_type.v = "int" /\ x.v[i].tag # "int"}

\* C14: when the field checks of a list contract fail on a list with
\* failing elements, one failure is reported for each failing element.
C14_ElementsAggregated ==
    (/\ kind = "ListLike"
     /\ phase = "Failed"
     /\ failure.step = "field"
     /\ failure.seen.tag = "list"
     /\ FailingElements # {}) =>
        failure.elements = FailingElements

\* what the annotation of parameter loc declares under a metadata name
DeclaredMeta(loc, name) ==
    LET c == guard.sig[loc].call
        i == LastIndexOf(c, name)
    IN  IF i = 0 THEN NoneV ELSE c[i][2]

\* C15: the error the guard raises for a failed argument carries the title,
\* description and examples the parameter's contract declares.
C15_ExtrasEchoed ==
    (kind = "Guard" /\ guard.pc = "raised") =>
        \A e \in guard.errors :
            e.loc # 0 =>
                /\ e.title = DeclaredMeta(e.loc, "title")
                /\ e.description = DeclaredMeta(e.loc, "description")
                /\ e.examples = DeclaredMeta(e.loc, "examples")

\* validation of argument i, and of the returned value, against its contract
ArgOutcome(i) == GuardValidate(guard.sig[i], guard.args[i])
RetOutcome == GuardValidate(guard.ret, guard.result)

\* C16: the body of a guarded function runs only after every argument has
\* been validated and all have succeeded, on the normalized values; a value
\* reaches the caller only after the body ran and the returned value passed
\* the return contract, and it is the normalized one; a failed argument or
\* return value ends the call with an error and no value.
C16_GuardOrder ==
    kind = "Guard" =>
        LET n == Len(guard.sig)
            done == guard.pc \in {"returned", "raised"}
        IN  /\ guard.ran =>
                  /\ guard.k = n
                  /\ \A i \in 1..n :
                        /\ ArgOutcome(i).phase = "Succeeded"
                        /\ guard.received[i] = ArgOutcome(i).val
            /\ guard.pc = "args" => ~guard.ran /\ guard.delivered = NoneV
            /\ guard.pc = "return" => guard.ran /\ guard.delivered = NoneV
            /\ guard.pc = "returned" =>
                  /\ guard.ran
                  /\ RetOutcome.phase = "Succeeded"
                  /\ guard.delivered = RetOutcome.val
            /\ guard.pc = "raised" =>
                  /\ guard.delivered = NoneV
                  /\ guard.errors # {}
                  /\ guard.ran => RetOutcome.phase = "Failed"
            /\ (done /\ \E i \in 1..n : ArgOutcome(i).phase = "Failed") =>
                  ~guard.ran /\ guard.pc = "raised"
            /\ (done /\ guard.ran /\ RetOutcome.phase = "Failed") =>
                  guard.pc = "raised"

C16_Witness ==
    /\ kind = "Guard"
    /\ guard.pc = "returned"
    /\ guard.ran
    /\ guard.received = guard.args
    /\ guard.delivered = guard.result
    /\ guard.sig[1].cls = "StrLike"
    /\ guard.ret.cls = "IntLike"

\* how a thread's evaluation ended
ThreadOutcome(e) ==
    [phase |-> conc.ev[e].phase,
     val |-> IF conc.ev[e].phase = "Succeeded" THEN conc.ev[e].val ELSE NoneV,
     failed |-> conc.ev[e].failed]

\* how the two evaluations end when one runs after the other: the first
\* one's outcome and the second one's
Sequential ==
    LET first == Evaluate(kind, steps, input, conc.fs0)
        second == Evaluate(kind, steps, input, first.fs)
    IN  {[phase |-> r.phase, val |-> r.val, failed |-> r.failed] :
            r \in {first, second}}

\* C17: whatever the interleaving, an evaluation that has ended has ended
\* the way it ends in one of the two sequential executions.
C17_AsSequential ==
    phase = "Concurrent" =>
        \A e \in 1..2 :
            conc.ev[e].phase \in {"Succeeded", "Failed"} =>
                ThreadOutcome(e) \in Sequential

\* the container-level validators of a list contract
ContainerSteps ==
    {"length", "unique_items", "is_sorted", "is_sorted_reverse", "sort",
     "sort_reverse"}

\* a value as the declared item type hands it on
Normalized(y, item_type) ==
    CASE item_type.v = "int" -> y.tag = "int"
      [] item_type.v = "float" -> y.tag = "float"
      [] OTHER -> TRUE

\* the same elements, in whatever order
SameBag(l, m) ==
    /\ Len(l) = Len(m)
    /\ \A y \in {l[i] : i \in 1..Len(l)} :
          Cardinality({i \in 1..Len(l) : l[i] = y})
              = Cardinality({i \in 1..Len(m) : m[i] = y})

\* C18: in the evaluation of a list contract a container-level validator is
\* called only after the field checks have accepted every element, and the
\* list it receives holds the elements as the item type returned them (an
\* int under item type float arrives as a float), the very list the field
\* checks returned, possibly reordered by a sort; when an element fails,
\* the evaluation fails at the field checks and no container-level validator
\* is called.
C18_ContainerAfterElements ==
    (kind = "ListLike" /\ Evaluating) =>
        LET item_type == Declared("item_type", NoneV)
            fields == {j \in 1..Len(trace) :
                          steps[trace[j].index].stage = "field"}
        IN  /\ \A i \in 1..Len(trace) :
                  steps[trace[i].index].name \in ContainerSteps =>
                      /\ \E j \in fields :
                            /\ j < i
                            /\ trace[j].ok
                            /\ SameBag(trace[i].seen.v, trace[j].out.v)
                      /\ trace[i].seen.tag = "list"
                      /\ \A n \in 1..Len(trace[i].seen.v) :
                            Normalized(trace[i].seen.v[n], item_type)
            /\ \A j \in fields :
                  (/\ trace[j].seen.tag = "list"
                   /\ \E n \in 1..Len(trace[j].seen.v) :
                         ~ValidateType(trace[j].seen.v[n], item_type).ok) =>
                      /\ ~trace[j].ok
                      /\ phase = "Failed"
                      /\ failure.step = "field"
                      /\ Executed({"post"}) = <<>>

C18_Witness ==
    /\ kind = "ListLike"
    /\ phase = "Succeeded"
    /\ Declared("item_type", NoneV) = TypeV("float")
    /\ Declared("sort", NoneV) = BoolV(TRUE)
    /\ input = ListV(<<IntV(3), IntV(1), IntV(2)>>)
    /\ val = ListV(<<FloatV("fin", 100), FloatV("fin", 200),
                     FloatV("fin", 300)>>)

\* the bulk form of a named-options call
AsConfig == << <<"config", PairsV(call)>> >>

C20_ValueCarried ==
    Evaluating =>
        /\ \A i \in 1..Len(trace) :
              /\ i = 1 => trace[i].seen = input
              /\ i > 1 => trace[i - 1].ok /\ trace[i].seen = trace[i - 1].out
        /\ (phase = "Running" /\ trace # <<>>) => val = trace[Len(trace)].out
        /\ phase = "Succeeded" =>
              /\ Len(trace) = Len(steps)
              /\ val = trace[Len(trace)].out

C20_Witness ==
    /\ kind = "StrLike"
    /\ phase = "Succeeded"
    /\ Len(trace) = 5
    /\ trace[3].out # trace[3].seen
    /\ trace[4].seen = trace[3].out
    /\ trace[5].seen = trace[3].out
    /\ val = trace[5].out
    /\ val # input

\* the stages of the validators called so far, in call order
StagesRun == [i \in 1..Len(trace) |-> steps[trace[i].index].stage]

\* pre-stage, then field, then post-stage
StageRank(stage) ==
    CASE stage = "pre" -> 1 [] stage = "field" -> 2 [] stage = "post" -> 3

\* the names of the validators of one stage called so far, in call order
NamesRun(stage) ==
    LET chosen == Executed({stage})
    IN  [i \in 1..Len(chosen) |-> chosen[i][1]]

\* the before-validators the template of a standard-order class lists
PreTemplate(cls) ==
    CASE cls = "ListLike" -> <<"none_to_empty", "coerce_scalar", "iterable_to_list">>
      [] cls \in {"IntLike", "FloatLike"} -> <<"is_number">>

\* C21: in every evaluation the validators are called stage by stage, all
\* of the pre-stage, then the base type with its field checks, then the
\* post-stage; the pre-stage ones are called in the order the template of
\* the class lists them, although the annotation holds them reversed.
C21_StageOrder ==
    (kind \in StdOrderKinds /\ Evaluating) =>
        /\ \A i, j \in 1..Len(trace) :
              i < j => StageRank(StagesRun[i]) <= StageRank(StagesRun[j])
        /\ \A i, j \in 1..Len(steps) :
              i < j => StageRank(steps[i].stage) <= StageRank(steps[j].stage)
        /\ Cardinality({i \in 1..Len(steps) : steps[i].stage = "field"}) = 1
        /\ IsPrefix(NamesRun("pre"), PreTemplate(kind))
        /\ (\E i \in 1..Len(trace) : StagesRun[i] # "pre") =>
              NamesRun("pre") = PreTemplate(kind)
        /\ [i \in 1..Len(PreTemplate(kind)) |->
                BuildCall(kind, call).annotated.before[i].name]
              = Reverse(PreTemplate(kind))

C21_Witness ==
    /\ kind = "ListLike"
    /\ phase = "Succeeded"
    /\ input = NoneV
    /\ val = ListV(<<>>)
    /\ NamesRun("pre") = PreTemplate("ListLike")
    /\ Declared("sort", NoneV) = BoolV(TRUE)

\* the after-validators of a list contract in the order of the template
PostTemplate ==
    <<"length", "unique_items", "is_sorted", "is_sorted_reverse", "sort",
      "sort_reverse">>

PostRank(name) == CHOOSE i \in 1..Len(PostTemplate) : PostTemplate[i] = name

\* the list the field checks returned, once they have
FieldOut ==
    LET fields == {j \in 1..Len(trace) :
                      steps[trace[j].index].stage = "field" /\ trace[j].ok}
    IN  IF fields = {} THEN NoneV ELSE trace[CHOOSE j \in fields : TRUE].out

\* a list in ascending, or in descending, order
Ascending(l) ==
    \A i, j \in 1..Len(l) : i < j => Hundredths(l[i]) <= Hundredths(l[j])
Descending(l) ==
    \A i, j \in 1..Len(l) : i < j => Hundredths(l[i]) >= Hundredths(l[j])

\* C22: the after-validators of a list contract are called in the order
\* length, unique_items, is_sorted, is_sorted_reverse, sort, sort_reverse
\* whatever the caller's order; the checks receive the list as the field
\* checks returned it, in input order; with sorted and sort both true an
\* unsorted list that reaches is_sorted is rejected there, not sorted; with
\* sort and sort_reverse both true an accepted list comes back descending.
C22_PostOrder ==
    (kind = "ListLike" /\ Evaluating) =>
        LET post == {i \in 1..Len(steps) : steps[i].stage = "post"}
            both(a, b) == /\ Declared(a, NoneV) = BoolV(TRUE)
                          /\ Declared(b, NoneV) = BoolV(TRUE)
        IN  /\ \A i \in post : steps[i].name \in ContainerSteps
            /\ \A i, j \in post :
                  i < j => PostRank(steps[i].name) < PostRank(steps[j].name)
            /\ \A i \in 1..Len(trace) :
                  steps[trace[i].index].name
                      \in {"length", "unique_items", "is_sorted",
                           "is_sorted_reverse"} =>
                      trace[i].seen = FieldOut
            /\ \A i \in 1..Len(trace) :
                  (/\ both("sorted", "sort")
                   /\ steps[trace[i].index].name = "is_sorted"
                   /\ \A n \in 1..Len(trace[i].seen.v) :
                         trace[i].seen.v[n].tag \in {"int", "float"}
                   /\ ~Ascending(trace[i].seen.v)) =>
                      /\ phase = "Failed"
                      /\ failure.step = "is_sorted"
                      /\ "sort" \notin {steps[trace[n].index].name :
                                            n \in 1..Len(trace)}
            /\ (both("sort", "sort_reverse") /\ phase = "Succeeded") =>
                  /\ Descending(val.v)
                  /\ SameBag(val.v, FieldOut.v)

C22_Witness ==
    /\ kind = "ListLike"
    /\ phase = "Succeeded"
    /\ LastIndexOf(call, "sort_reverse") = 1
    /\ LastIndexOf(call, "sort") = 2
    /\ input = ListV(<<IntV(3), IntV(1), IntV(2)>>)
    /\ val = ListV(<<IntV(3), IntV(2), IntV(1)>>)

\* an unsorted list rejected by a contract that also declares sort
C22_WitnessRejected ==
    /\ kind = "ListLike"
    /\ phase = "Failed"
    /\ LastIndexOf(call, "sort") = 1
    /\ LastIndexOf(call, "sorted") = 2
    /\ input = ListV(<<IntV(3), IntV(1), IntV(2)>>)
    /\ failure.step = "is_sorted"

\* the steps of a path contract that write to the filesystem
MutationSteps == {"create_as_file", "create_as_dir", "create_parents"}

\* the target of a mutation step is there already, in the form it creates
InRequiredForm(name, x, f) ==
    CASE name = "create_as_file" -> IsFile(f, x.v)
      [] name = "create_as_dir" -> IsDir(f, x.v)
      [] name = "create_parents" -> IsDir(f, Parent(x.v))

\* C23: create_as_file, create_as_dir and create_parents are idempotent:
\* a step that finds its target in the required form succeeds and leaves
\* the filesystem as it was; a step that succeeded, applied again to the
\* path and the filesystem it returned, succeeds and returns the same path
\* and the same filesystem; of two equal steps in succession the second
\* one changes nothing.
C23_Idempotent ==
    (kind = "PathLike" /\ Evaluating) =>
        \A i \in 1..Len(trace) :
            LET step == steps[trace[i].index]
                again == ApplyStep(kind, step, trace[i].out, trace[i].left)
            IN  (step.name \in MutationSteps /\ step.arg = BoolV(TRUE)) =>
                    /\ InRequiredForm(step.name, trace[i].seen, trace[i].fs) =>
                          /\ trace[i].ok
                          /\ trace[i].out = trace[i].seen
                          /\ trace[i].left = trace[i].fs
                    /\ trace[i].ok =>
                          /\ InRequiredForm(step.name, trace[i].out,
                                            trace[i].left)
                          /\ again.ok
                          /\ again.v = trace[i].out
                          /\ again.fs = trace[i].left
                    /\ (/\ i > 1
                        /\ trace[i - 1].ok
                        /\ steps[trace[i - 1].index].name = step.name) =>
                          /\ trace[i].ok
                          /\ trace[i].out = trace[i - 1].out
                          /\ trace[i].left = trace[i - 1].left

\* create_as_dir twice in succession, the first one creating the directory
C23_Witness ==
    /\ kind = "PathLike"
    /\ phase = "Succeeded"
    /\ \E i \in 2..Len(trace) :
          /\ steps[trace[i].index].name = "create_as_dir"
          /\ steps[trace[i - 1].index].name = "create_as_dir"
          /\ trace[i - 1].left # trace[i - 1].fs
          /\ trace[i].left = trace[i].fs
          /\ fs = trace[i].left

\* everything in filesystem f is still in filesystem g
Kept(f, g) == f.dirs \subseteq g.dirs /\ f.files \subseteq g.files

\* C24: no rollback: when a path contract has failed, everything the
\* successful steps before the failing one created (parent directories, the
\* file or the directory) is still in the filesystem, and the filesystem is
\* the one the failing step left.
C24_NoRollback ==
    (kind = "PathLike" /\ phase = "Failed") =>
        /\ \A i \in 1..Len(trace) :
              /\ Kept(trace[i].fs, fs)
              /\ Kept(trace[i].left, fs)
        /\ fs = trace[Len(trace)].left
        /\ \A i \in 1..(Len(trace) - 1) :
              trace[i].ok /\ trace[i + 1].fs = trace[i].left

\* create_parents made /d, then create_as_dir on the path made a directory
\* of it, then create_as_file failed on the directory: both are still there
C24_Witness ==
    /\ kind = "PathLike"
    /\ phase = "Failed"
    /\ failure.index > 1
    /\ failure.step \in MutationSteps
    /\ \E i \in 1..(Len(trace) - 1) :
          /\ steps[trace[i].index].name \in MutationSteps
          /\ trace[i].left # trace[i].fs
          /\ ~Kept(trace[i].left, trace[1].fs)
    /\ fs # trace[1].fs

\* C25: building a contract leaves the filesystem as it was, whatever the
\* declaration; the filesystem changes only while a value is evaluated, and
\* only in a create_as_file, create_as_dir or create_parents step declared
\* true.
C25_BuildLeavesFs ==
    [][/\ phase = "Declared" => fs' = fs
       /\ fs' # fs =>
             /\ phase = "Running"
             /\ idx' = idx + 1
             /\ steps[idx].name \in MutationSteps
             /\ steps[idx].arg = BoolV(TRUE)]_vars

\* a contract declaring all three mutation steps is built on a filesystem
\* where its targets are missing, and nothing has been created
C25_Witness ==
    /\ kind = "PathLike"
    /\ phase = "Built"
    /\ {"create_as_file", "create_as_dir", "create_parents"}
          \subseteq {steps[i].name : i \in 1..Len(steps)}
    /\ fs = NoFs
    /\ ~IsDir(fs, <<DirD>>)

\* C26: the coerce_scalar step, for a value that is not ambiguous: with
\* coerce_scalar true, a value that validates against the element contract
\* (and whose one-element list does not) comes back as the one-element list
\* of that value, and a value that does not validate comes back unchanged;
\* with coerce_scalar false every value comes back unchanged and the step
\* does not fail.
C26_CoerceScalar ==
    (kind = "ListLike" /\ Evaluating) =>
        \A i \in 1..Len(trace) :
            LET step == steps[trace[i].index]
                x == trace[i].seen
                item_type == step.arg.v[2]
                valid_as_scalar == ValidateType(x, item_type).ok
                valid_as_list == ValidateType(ListV(<<x>>), item_type).ok
            IN  step.name = "coerce_scalar" =>
                    /\ step.arg.v[1] = BoolV(FALSE) =>
                          trace[i].ok /\ trace[i].out = x
                    /\ (/\ step.arg.v[1] = BoolV(TRUE)
                        /\ valid_as_scalar /\ ~valid_as_list) =>
                          trace[i].ok /\ trace[i].out = ListV(<<x>>)
                    /\ (step.arg.v[1] = BoolV(TRUE) /\ ~valid_as_scalar) =>
                          trace[i].ok /\ trace[i].out = x

\* the scalar 2 given to a list of int with coerce_scalar comes back as [2]
C26_Witness ==
    /\ kind = "ListLike"
    /\ phase = "Succeeded"
    /\ Declared("coerce_scalar", NoneV) = BoolV(TRUE)
    /\ Declared("item_type", NoneV).v = "int"
    /\ input = IntV(2)
    /\ val = ListV(<<IntV(2)>>)

\* a list given to the same contract passes the step unchanged
C26_WitnessUnchanged ==
    /\ kind = "ListLike"
    /\ phase = "Succeeded"
    /\ Declared("coerce_scalar", NoneV) = BoolV(TRUE)
    /\ Declared("item_type", NoneV).v = "int"
    /\ input = ListV(<<IntV(1), IntV(2), IntV(3)>>)
    /\ val = input

-----------------------------------------------------------------------------
(* State machine of declarations with arguments of the wrong type *)

yes == StrV(<<"y", "e", "s">>)

\* entries whose argument is not of the type the factory's (or the
\* signature's) annotation asks for
WrongTyped(cls) ==
    CASE cls = "StrLike" -> {<<"none_to_empty", yes>>, <<"strip", yes>>}
      [] cls = "PathLike" -> {<<"exist", yes>>, <<"with_suffix", BoolV(TRUE)>>}
      [] cls = "FloatLike" -> {<<"allow_nan", yes>>, <<"max_decimal_places", yes>>}
      [] cls = "ListLike" -> {<<"sort", yes>>, <<"none_to_empty", yes>>}

WellTyped(cls) ==
    CASE cls = "StrLike" -> {<<"none_to_empty", BoolV(TRUE)>>,
                             <<"none_to_empty", BoolV(FALSE)>>,
                             <<"strip", BoolV(TRUE)>>}
      [] cls = "PathLike" -> {<<"exist", BoolV(TRUE)>>,
                              <<"with_suffix", StrV(<<".log">>)>>}
      [] cls = "FloatLike" -> {<<"allow_nan", BoolV(TRUE)>>}
      [] cls = "ListLike" -> {<<"item_type", TypeV("int")>>,
                              <<"sort", BoolV(TRUE)>>}

ArgEntries(cls) == WrongTyped(cls) \cup WellTyped(cls)

ArgCalls(cls) ==
    {c \in SeqsUpTo(ArgEntries(cls), MaxDecl) : DistinctNames(c)}
    \cup (IF cls \in UserOrderKinds
          THEN {<< <<"config", PairsV(c)>> >> :
                    c \in SeqsUpTo(ArgEntries(cls), MaxDecl)}
          ELSE {})

InitArg ==
    /\ kind \in {"StrLike", "PathLike", "FloatLike", "ListLike"}
    /\ call \in ArgCalls(kind)
    /\ fs \in FsInits(kind)
    /\ InitUnguarded

NextArg == Build \/ Start \/ Step

SpecArg == InitArg /\ [][NextArg]_vars

\* C27: a declaration holding an argument of the wrong type never builds:
\* the build call fails, with the argument type error when the declaration
\* is otherwise complete, whatever the position of the entry, in user-order
\* and in standard-order classes alike.
C27_ArgTypeChecked ==
    (\E i \in 1..Len(Decl) : Decl[i] \in WrongTyped(kind)) =>
        /\ phase \in {"Declared", "BuildFailed"}
        /\ (phase = "BuildFailed" /\ Required(kind) \subseteq Names(Decl)) =>
              buildErr = "ConstraintArgumentTypeError"

-----------------------------------------------------------------------------
(* Evaluations that are carried through *)

\* validate_type is an ordinary synchronous call: once it is made the
\* interpreter runs each validator in turn until one raises or the last
\* one returns
SpecFair == InitArg /\ [][NextArg]_vars /\ WF_vars(Start) /\ WF_vars(Step)

Terminal == phase \in {"Succeeded", "Failed"}

C28_WitnessFailed ==
    /\ phase = "Failed"
    /\ Len(steps) >= 3
    /\ idx <= Len(steps)

\* the value of the last none_to_empty the caller declared, False if none
LastNoneToEmpty ==
    LET i == LastIndexOf(Decl, "none_to_empty")
    IN  IF i = 0 THEN BoolV(FALSE) ELSE Decl[i][2]

RECURSIVE RandomParts(_, _)
\* path p after the with_random_part validators from index i on have each
\* put the string of their closure into its name
RandomParts(p, i) ==
    IF i > Len(steps) THEN p
    ELSE IF steps[i].name = "with_random_part" /\ steps[i].arg = BoolV(TRUE)
    THEN RandomParts(WithRandomPart(p, steps[i].captured), i + 1)
    ELSE RandomParts(p, i + 1)

\* C30: the string of a with_random_part step is the one drawn when the
\* contract was built: two evaluations of one built contract on the same
\* input put that same string into the name, so that where both succeed
\* they return the same path, whatever the first has changed in the
\* filesystem in between.
C30_SameStringEachEvaluation ==
    (phase = "Concurrent" /\ Drawing(steps) # {}) =>
        /\ \A k \in Drawing(steps) : steps[k].captured \in RandomStrs
        /\ \A e \in 1..2 :
              conc.ev[e].phase = "Succeeded" =>
                  conc.ev[e].val = PathV(RandomParts(input.v, 1))
        /\ (\A e \in 1..2 : conc.ev[e].phase = "Succeeded") =>
              conc.ev[1].val = conc.ev[2].val

\* both evaluations have ended, the first having created the parent
\* directory the second found, and both returned f_bbbbbbbb.csv
C30_Witness ==
    /\ phase = "Concurrent"
    /\ \A e \in 1..2 : conc.ev[e].phase = "Succeeded"
    /\ Decl = << <<"create_parents", BoolV(TRUE)>>,
                 <<"with_random_part", BoolV(TRUE)>> >>
    /\ conc.fs0 = NoFs
    /\ fs # conc.fs0
    /\ input = PathV(<<DirD, FileCsv>>)
    /\ conc.ev[1].val
          = PathV(<<DirD, [stem |-> "f_bbbbbbbb", suffix |-> ".csv"]>>)
    /\ conc.ev[2].val = conc.ev[1].val

====
